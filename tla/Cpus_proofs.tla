------------------------------ MODULE Cpus_proofs ------------------------------
(***************************************************************************)
(* Proofs about what each CPU has for itself (CpuParts), for any number of *)
(* CPUs: its segments, task state and stacks (module Descriptors, with the *)
(* prefix Segs), its entry of cpus[] (MpConfig, Mp), and what it           *)
(* translates by (Tlb, Mmu).                                               *)
(***************************************************************************)
EXTENDS CpuParts, FiniteSetTheorems, SequenceTheorems, TLAPS

-----------------------------------------------------------------------------
(* Segs!Segments, task states and stacks: Descriptors *)

Registers == {"gs", "fs", "es", "ds", "ss", "cs", "ldt"}
Place ==
  {"reset", "mp_main", "env_init_percpu", "trap_init_percpu", "tss", "descriptor", "ltr", "mp_init",
   "lapic_init", "boot_aps", "started", "lock", "kernel", "user", "halted"}
Slots == IF Segs!Smp THEN MaxCpus ELSE 1
Desc == [type : Nat, s : {0, 1}, dpl : Nat, p : {0, 1}, base : Nat]

TypeOK ==
  /\ machine \in Machines
  /\ ts \in [0 .. MaxCpus - 1 -> [esp0 : Int, ss0 : {0, Segs!GD_KD}]]
  /\ cpuid \in [0 .. MaxCpus - 1 -> 0 .. MaxCpus - 1]
  /\ lapic \in BOOLEAN /\ c \in Nat /\ c <= machine.ncpu
  /\ table \in [Segs!Cpus -> {"boot", "gdt"}] /\ tr \in [Segs!Cpus -> 0 .. MaxCpus]
  /\ esp \in [Segs!Cpus -> Int] /\ pc \in [Segs!Cpus -> Place]
  /\ gdt \in Seq(Desc) /\ Len(gdt) = 5 + Slots

\* What a CPU is about to do on its way to the kernel.
Setup == {"env_init_percpu", "trap_init_percpu", "tss", "descriptor", "ltr"}
Early == Setup \cup {"mp_init", "lapic_init"}
Ready == {"lock", "kernel", "user", "halted"}

PlacesOK ==
  \A cpu \in Segs!Cpus :
    CASE ~Segs!Smp -> pc[cpu] \in {"env_init_percpu", "trap_init_percpu", "kernel", "user"}
      [] Segs!Smp /\ cpu = machine.bsp ->
           pc[cpu] \in (Early \ {"trap_init_percpu"}) \cup {"boot_aps"} \cup Ready
      [] OTHER -> pc[cpu] \in {"reset", "mp_main", "started"} \cup (Setup \ {"trap_init_percpu"}) \cup Ready

\* The boot processor wakes the others when cpus[] is numbered and the LAPIC is
\* mapped; until then every CPU is number 0.
OrderOK ==
  IF Segs!Smp /\ pc[machine.bsp] \in Early
  THEN /\ ~lapic
       /\ \A cpu \in Segs!Cpus \ {machine.bsp} : pc[cpu] = "reset"
       /\ IF pc[machine.bsp] = "lapic_init" THEN \A i \in Segs!Cpus : cpuid[i] = i
          ELSE \A i \in 0 .. MaxCpus - 1 : cpuid[i] = 0
  ELSE Segs!Smp => (lapic <=> machine.ncpu > 1) /\ \A i \in Segs!Cpus : cpuid[i] = i

\* The segments of the GDT stay, and who is about to load a task register finds
\* its own TSS there.
GdtOK ==
  /\ \A k \in 1 .. 5 : gdt[k] = Segs!Segments[k]
  /\ \A cpu \in Segs!Cpus : pc[cpu] = "ltr" =>
       gdt[Segs!Entry(Segs!GD_TSS0) + cpuid[Segs!Cpunum(cpu)]] =
         [Segs!SEG16(Segs!STS_T32A, Segs!Cpunum(cpu), 0) EXCEPT !.s = 0]

\* Who got past a step of the set-up keeps what it has loaded.
LoadedOK ==
  \A cpu \in Segs!Cpus :
    /\ pc[cpu] \notin {"reset", "mp_main", "env_init_percpu"} => table[cpu] = "gdt"
    /\ pc[cpu] \in {"descriptor", "ltr"} => ts[Segs!Cpunum(cpu)].ss0 = Segs!GD_KD
    /\ pc[cpu] \in Ready \cup {"mp_init", "lapic_init", "boot_aps", "started"} =>
         tr[cpu] \in 0 .. MaxCpus - 1 /\ ts[tr[cpu]].ss0 = Segs!GD_KD

IInv == TypeOK /\ PlacesOK /\ OrderOK /\ GdtOK /\ LoadedOK /\ Segs!NoCpuFaults

-----------------------------------------------------------------------------
(* The steps of the set-up *)

\* What comes after the step that a CPU is at.
Following(cpu) ==
  LET k == CHOOSE k \in DOMAIN Segs!Steps(cpu) : Segs!Steps(cpu)[k] = pc[cpu] IN Segs!Steps(cpu)[k + 1]

LEMMA FollowingInLab3 ==
  ASSUME NEW cpu, ~Segs!Smp
  PROVE  /\ pc[cpu] = "env_init_percpu" => Following(cpu) = "trap_init_percpu"
         /\ pc[cpu] = "trap_init_percpu" => Following(cpu) = "kernel"
<1> USE DEF Following, Segs!Steps, Segs!Lab3Steps
<1> DEFINE K(s) == CHOOSE k \in 1 .. 3 : Segs!Lab3Steps[k] = s
<1>1. DOMAIN Segs!Lab3Steps = 1 .. 3
  OBVIOUS
<1>2. K("env_init_percpu") = 1 /\ K("trap_init_percpu") = 2
  OBVIOUS
<1> QED BY <1>1, <1>2

LEMMA FollowingOnBsp ==
  ASSUME NEW cpu, Segs!Smp, cpu = machine.bsp
  PROVE  /\ pc[cpu] = "env_init_percpu" => Following(cpu) = "tss"
         /\ pc[cpu] = "tss" => Following(cpu) = "descriptor"
         /\ pc[cpu] = "descriptor" => Following(cpu) = "ltr"
         /\ pc[cpu] = "ltr" => Following(cpu) = "mp_init"
         /\ pc[cpu] = "mp_init" => Following(cpu) = "lapic_init"
         /\ pc[cpu] = "lapic_init" => Following(cpu) = "boot_aps"
         /\ pc[cpu] = "boot_aps" => Following(cpu) = "kernel"
<1> USE DEF Following, Segs!Steps, Segs!BspSteps
<1> DEFINE K(s) == CHOOSE k \in 1 .. 8 : Segs!BspSteps[k] = s
<1>1. DOMAIN Segs!BspSteps = 1 .. 8
  OBVIOUS
<1>2. K("env_init_percpu") = 1 /\ K("tss") = 2 /\ K("descriptor") = 3 /\ K("ltr") = 4
  OBVIOUS
<1>3. K("mp_init") = 5 /\ K("lapic_init") = 6 /\ K("boot_aps") = 7
  OBVIOUS
<1> QED BY <1>1, <1>2, <1>3

LEMMA FollowingOnAp ==
  ASSUME NEW cpu, Segs!Smp, cpu # machine.bsp
  PROVE  /\ pc[cpu] = "mp_main" => Following(cpu) = "env_init_percpu"
         /\ pc[cpu] = "env_init_percpu" => Following(cpu) = "tss"
         /\ pc[cpu] = "tss" => Following(cpu) = "descriptor"
         /\ pc[cpu] = "descriptor" => Following(cpu) = "ltr"
         /\ pc[cpu] = "ltr" => Following(cpu) = "started"
         /\ pc[cpu] = "started" => Following(cpu) = "lock"
<1> USE DEF Following, Segs!Steps, Segs!ApSteps
<1> DEFINE K(s) == CHOOSE k \in 1 .. 8 : Segs!ApSteps[k] = s
<1>1. DOMAIN Segs!ApSteps = 1 .. 8
  OBVIOUS
<1>2. K("mp_main") = 2 /\ K("env_init_percpu") = 3 /\ K("tss") = 4 /\ K("descriptor") = 5
  OBVIOUS
<1>3. K("ltr") = 6 /\ K("started") = 7
  OBVIOUS
<1> QED BY <1>1, <1>2, <1>3

LEMMA NextStepIs ==
  ASSUME NEW cpu, Segs!NextStep(cpu)
  PROVE  pc' = [pc EXCEPT ![cpu] = Following(cpu)]
BY DEF Segs!NextStep, Following

-----------------------------------------------------------------------------
(* Selectors *)

LEMMA Entries ==
  /\ Segs!Entry(Segs!GD_KT) = 2 /\ Segs!Entry(Segs!GD_KD) = 3 /\ Segs!Entry(Segs!GD_UT + 3) = 4
  /\ Segs!Entry(Segs!GD_UD + 3) = 5
  /\ Segs!Entry(Segs!GD_TSS0) = 6 /\ \A k \in Nat : Segs!Entry(Segs!GD_TSS0 + 8 * k) = 6 + k
  /\ Segs!Rpl(Segs!GD_KT) = 0 /\ Segs!Rpl(Segs!GD_KD) = 0 /\ Segs!Rpl(Segs!GD_UT + 3) = 3
  /\ Segs!Rpl(Segs!GD_UD + 3) = 3
BY DEF Segs!Entry, Segs!Rpl, Segs!GD_KT, Segs!GD_KD, Segs!GD_UT, Segs!GD_UD, Segs!GD_TSS0

\* The five segments of the kernel's GDT load wherever the kernel loads them.
LEMMA SegmentsLoad ==
  ASSUME NEW g, Len(g) \in Nat, Len(g) >= 5, \A k \in 1 .. 5 : g[k] = Segs!Segments[k]
  PROVE  /\ Segs!DataLoads(Segs!GD_UD + 3, 0, g) /\ Segs!DataLoads(Segs!GD_KD, 0, g)
         /\ Segs!StackLoads(Segs!GD_KD, 0, g) /\ Segs!StackLoads(Segs!GD_UD + 3, 3, g)
         /\ Segs!CodeLoads(Segs!GD_KT, 0, g) /\ Segs!CodeLoads(Segs!GD_UT + 3, 3, g)
<1>1. /\ g[2] = Segs!SEG(Segs!STA_X + Segs!STA_R, 0) /\ g[3] = Segs!SEG(Segs!STA_W, 0)
      /\ g[4] = Segs!SEG(Segs!STA_X + Segs!STA_R, 3) /\ g[5] = Segs!SEG(Segs!STA_W, 3)
  BY DEF Segs!Segments
<1>2. /\ g[2].s = 1 /\ g[2].type = 10 /\ g[2].dpl = 0 /\ g[2].p = 1
      /\ g[3].s = 1 /\ g[3].type = 2 /\ g[3].dpl = 0 /\ g[3].p = 1
      /\ g[4].s = 1 /\ g[4].type = 10 /\ g[4].dpl = 3 /\ g[4].p = 1
      /\ g[5].s = 1 /\ g[5].type = 2 /\ g[5].dpl = 3 /\ g[5].p = 1
  BY <1>1 DEF Segs!SEG, Segs!STA_X, Segs!STA_R, Segs!STA_W
<1> QED
  BY <1>2, Entries DEF Segs!DataLoads, Segs!StackLoads, Segs!CodeLoads, Segs!Found, Segs!IsCode,
    Segs!IsWritable, Segs!STA_X, Segs!STA_W

\* A descriptor of a TSS is stored behind the segments.
LEMMA StoredInGdt ==
  ASSUME NEW g \in Seq(Desc), NEW k \in 6 .. Len(g), NEW d \in Desc, NEW h, h = [g EXCEPT ![k] = d]
  PROVE  /\ h \in Seq(Desc) /\ Len(h) = Len(g) /\ h[k] = d
         /\ \A x \in 1 .. Len(g) : x # k => h[x] = g[x]
         /\ Len(g) >= 6 => \A x \in 1 .. 5 : h[x] = g[x]
<1>1. k \in 1 .. Len(g) /\ k > 5
  BY LenProperties
<1>2. h \in Seq(Desc) /\ Len(h) = Len(g) /\ \A x \in 1 .. Len(g) : h[x] = IF x = k THEN d ELSE g[x]
  BY <1>1, ExceptSeq
<1> QED BY <1>1, <1>2, LenProperties

\* A TSS as trap_init_percpu leaves it can be loaded.
LEMMA TssLoads ==
  ASSUME NEW g, NEW k \in Nat, NEW b, Len(g) \in Nat, 6 + k <= Len(g),
         g[6 + k] = [Segs!SEG16(Segs!STS_T32A, b, 0) EXCEPT !.s = 0]
  PROVE  Segs!TaskLoads(Segs!GD_TSS0 + 8 * k, g) /\ g[6 + k].base = b
BY Entries DEF Segs!TaskLoads, Segs!Found, Segs!SEG16, Segs!STS_T32A

-----------------------------------------------------------------------------
(* The invariant *)

LEMMA Facts ==
  ASSUME Segs!DescriptorsAssumption, IInv
  PROVE  /\ MaxCpus \in Nat /\ MaxCpus >= 1
         /\ machine.lab \in {3, 4} /\ machine.ncpu \in 1 .. MaxCpus
         /\ machine.bsp \in Segs!Cpus /\ Segs!Cpus \subseteq 0 .. MaxCpus - 1 /\ 0 \in Segs!Cpus
         /\ ~Segs!Smp => Segs!Cpus = {0} /\ machine.bsp = 0
         /\ Slots \in Nat /\ Slots >= 1 /\ (Segs!Smp => Slots = MaxCpus)
         /\ Len(gdt) >= 6 /\ Len(gdt) \in Nat
<1>1. machine \in [lab : {3, 4}, ncpu : 1 .. MaxCpus, bsp : 0 .. MaxCpus - 1]
      /\ machine.bsp < machine.ncpu /\ (machine.lab = 3 => machine.ncpu = 1)
  BY DEF Segs!DescriptorsAssumption, IInv, TypeOK
<1>2. MaxCpus \in Nat /\ MaxCpus >= 1
  BY DEF Segs!DescriptorsAssumption
<1>3. machine.bsp \in Segs!Cpus /\ Segs!Cpus \subseteq 0 .. MaxCpus - 1 /\ 0 \in Segs!Cpus
      /\ (~Segs!Smp => Segs!Cpus = {0} /\ machine.bsp = 0)
  BY <1>1, <1>2 DEF Segs!Cpus, Segs!Smp
<1>4. Len(gdt) = 5 + Slots /\ Slots \in Nat /\ Slots >= 1 /\ (Segs!Smp => Slots = MaxCpus)
  BY <1>2 DEF IInv, TypeOK, Slots
<1> QED BY <1>1, <1>2, <1>3, <1>4

LEMMA Initially == ASSUME Segs!DescriptorsAssumption, Segs!Init PROVE IInv
<1>1. /\ MaxCpus \in Nat \ {0} /\ machine \in Machines
      /\ machine.lab \in {3, 4} /\ machine.ncpu \in 1 .. MaxCpus /\ machine.bsp \in Segs!Cpus
      /\ machine.lab = 3 => machine.ncpu = 1
  BY DEF Segs!DescriptorsAssumption, Segs!Init, Segs!Cpus
<1>2. /\ gdt = Segs!InitialGdt(machine.lab) /\ gdt \in Seq(Desc) /\ Len(gdt) = 5 + Slots
      /\ \A k \in 1 .. 5 : gdt[k] = Segs!Segments[k]
  <2> DEFINE n == IF machine.lab = 4 THEN MaxCpus ELSE 1
             t == [k \in 1 .. n |-> Segs!SEG_NULL]
  <2>1. n \in Nat /\ t \in Seq(Desc) /\ Len(t) = n
    BY <1>1 DEF Desc, Segs!SEG_NULL
  <2>2. Segs!Segments \in Seq(Desc) /\ Len(Segs!Segments) = 5
    BY DEF Segs!Segments, Desc, Segs!SEG_NULL, Segs!SEG, Segs!STA_X, Segs!STA_R, Segs!STA_W
  <2>3. gdt = Segs!Segments \o t
    BY <1>1 DEF Segs!Init, Segs!InitialGdt
  <2> HIDE DEF t, n
  <2>4. gdt \in Seq(Desc) /\ Len(gdt) = 5 + n /\ \A k \in 1 .. 5 : gdt[k] = Segs!Segments[k]
    <3>1. gdt \in Seq(Desc) /\ Len(gdt) = Len(Segs!Segments) + Len(t)
          /\ \A k \in 1 .. Len(Segs!Segments) + Len(t) : gdt[k] =
               IF k <= Len(Segs!Segments) THEN Segs!Segments[k] ELSE t[k - Len(Segs!Segments)]
      BY <2>1, <2>2, <2>3, ConcatProperties
    <3> QED BY <2>1, <2>2, <3>1, LenProperties
  <2> QED BY <2>3, <2>4 DEF n, t, Slots, Segs!Smp, Segs!InitialGdt
<1>3. \A cpu \in Segs!Cpus : pc[cpu] = IF Segs!Smp /\ cpu # machine.bsp THEN "reset" ELSE "env_init_percpu"
  BY DEF Segs!Init, Segs!Steps, Segs!Lab3Steps, Segs!BspSteps, Segs!ApSteps
<1>4. TypeOK
  <2>1. pc \in [Segs!Cpus -> Place]
    BY <1>3 DEF Segs!Init, Place
  <2>2. table \in [Segs!Cpus -> {"boot", "gdt"}] /\ tr \in [Segs!Cpus -> 0 .. MaxCpus]
        /\ esp \in [Segs!Cpus -> Int]
    BY <1>1 DEF Segs!Init, Segs!NoTss
  <2>3. ts \in [0 .. MaxCpus - 1 -> [esp0 : Int, ss0 : {0, Segs!GD_KD}]]
    BY DEF Segs!Init, Segs!Taskstate
  <2>4. cpuid \in [0 .. MaxCpus - 1 -> 0 .. MaxCpus - 1] /\ lapic \in BOOLEAN /\ c \in Nat /\ c <= machine.ncpu
    <3>1. 0 \in 0 .. MaxCpus - 1 /\ 0 <= machine.ncpu
      BY <1>1
    <3> QED BY <3>1 DEF Segs!Init
  <2> QED BY <1>1, <1>2, <2>1, <2>2, <2>3, <2>4 DEF TypeOK
<1>5. PlacesOK
  BY <1>1, <1>3 DEF PlacesOK, Early, Setup, Ready, Segs!Cpus, Segs!Smp
<1>6. OrderOK
  BY <1>1, <1>3 DEF Segs!Init, OrderOK, Early, Setup, Segs!Cpus
<1>7. GdtOK
  BY <1>2, <1>3 DEF GdtOK
<1>8. LoadedOK
  BY <1>3 DEF LoadedOK, Ready
<1> QED BY <1>4, <1>5, <1>6, <1>7, <1>8 DEF IInv, Segs!Init, Segs!NoCpuFaults

LEMMA EnvInitPercpuKeeps ==
  ASSUME Segs!DescriptorsAssumption, IInv, NEW cpu \in Segs!Cpus, Segs!EnvInitPercpu(cpu)
  PROVE  IInv'
<1> USE Facts DEF Segs!At
<1>1. /\ pc[cpu] = "env_init_percpu" /\ UNCHANGED <<machine, gdt, ts, cpuid, lapic, tr, esp, c, lock>>
      /\ table' = [table EXCEPT ![cpu] = "gdt"] /\ pc' = [pc EXCEPT ![cpu] = Following(cpu)]
  BY NextStepIs DEF Segs!EnvInitPercpu
<1>2. Following(cpu) = IF Segs!Smp THEN "tss" ELSE "trap_init_percpu"
  BY <1>1, FollowingInLab3, FollowingOnBsp, FollowingOnAp
<1>3. pc' = [pc EXCEPT ![cpu] = IF Segs!Smp THEN "tss" ELSE "trap_init_percpu"]
  BY <1>1, <1>2
<1>4. Segs!Cpus' = Segs!Cpus /\ Segs!Smp' = Segs!Smp /\ Slots' = Slots
  BY <1>1 DEF Segs!Cpus, Segs!Smp, Slots
<1>5. TypeOK'
  BY <1>1, <1>3, <1>4 DEF IInv, TypeOK, Place
<1>6. PlacesOK'
  BY <1>1, <1>3, <1>4 DEF IInv, TypeOK, PlacesOK, Early, Setup, Ready
<1>7. OrderOK'
  BY <1>1, <1>3, <1>4 DEF IInv, TypeOK, OrderOK, Early, Setup
<1>8. GdtOK'
  BY <1>1, <1>3, <1>4 DEF IInv, TypeOK, GdtOK, Segs!Cpunum
<1>9. LoadedOK'
  BY <1>1, <1>3, <1>4 DEF IInv, TypeOK, LoadedOK, Ready, Segs!Cpunum
<1>10. Segs!NoCpuFaults'
  <2> DEFINE ok == /\ \A r \in {"gs", "fs", "es", "ds"} : Segs!DataLoads(Segs!KernelSegments[r], 0, gdt)
                   /\ Segs!StackLoads(Segs!KernelSegments.ss, 0, gdt)
                   /\ Segs!CodeLoads(Segs!KernelSegments.cs, 0, gdt)
  <2>1. /\ Segs!DataLoads(Segs!GD_UD + 3, 0, gdt) /\ Segs!DataLoads(Segs!GD_KD, 0, gdt)
        /\ Segs!StackLoads(Segs!GD_KD, 0, gdt) /\ Segs!CodeLoads(Segs!GD_KT, 0, gdt)
    BY SegmentsLoad DEF IInv, GdtOK
  <2>2. ok
    BY <2>1 DEF Segs!KernelSegments
  <2> HIDE DEF ok
  <2>3. Segs!OrFaults(cpu, ok)
    BY DEF Segs!EnvInitPercpu, ok
  <2> QED BY <2>2, <2>3 DEF Segs!OrFaults, IInv, Segs!NoCpuFaults
<1> QED BY <1>5, <1>6, <1>7, <1>8, <1>9, <1>10 DEF IInv

LEMMA KstackTopType ==
  ASSUME Segs!DescriptorsAssumption, NEW k \in Nat
  PROVE  Segs!KstackTop(k) \in Int /\ Segs!PercpuKstack(k) \in Int /\ Segs!PercpuKstack(k) + StackSize \in Int
<1>1. k * (StackSize + StackGap) \in Int /\ k * StackSize \in Int
  BY DEF Segs!DescriptorsAssumption
<1> QED BY <1>1 DEF Segs!DescriptorsAssumption, Segs!KstackTop, Segs!PercpuKstack

LEMMA Numbers ==
  ASSUME Segs!DescriptorsAssumption, IInv, NEW cpu \in Segs!Cpus
  PROVE  Segs!Cpunum(cpu) \in 0 .. MaxCpus - 1 /\ cpuid[Segs!Cpunum(cpu)] \in 0 .. MaxCpus - 1
<1>1. Segs!Cpunum(cpu) \in 0 .. MaxCpus - 1
  BY Facts DEF Segs!Cpunum
<1> QED BY <1>1 DEF IInv, TypeOK

\* Two CPUs that set up their TSS at the same time know their numbers.
LEMMA TwoKnowTheirNumbers ==
  ASSUME Segs!DescriptorsAssumption, IInv, NEW cpu \in Segs!Cpus, NEW other \in Segs!Cpus, cpu # other,
         pc[cpu] \in {"tss", "descriptor", "ltr"}, pc[other] \notin {"reset"}
  PROVE  /\ Segs!Smp /\ Segs!Cpunum(cpu) = cpu /\ Segs!Cpunum(other) = other
         /\ cpuid[cpu] = cpu /\ cpuid[other] = other
<1>1. Segs!Smp
  BY DEF IInv, PlacesOK
<1>2. pc[machine.bsp] \notin Early
  <2> SUFFICES ASSUME pc[machine.bsp] \in Early PROVE FALSE
    OBVIOUS
  <2>1. \A d \in Segs!Cpus \ {machine.bsp} : pc[d] = "reset"
    BY <1>1 DEF IInv, OrderOK
  <2> QED BY <2>1
<1>3. (lapic <=> machine.ncpu > 1) /\ \A k \in Segs!Cpus : cpuid[k] = k
  BY <1>1, <1>2 DEF IInv, OrderOK
<1>4. machine.ncpu > 1
  BY Facts DEF Segs!Cpus
<1> QED BY <1>1, <1>3, <1>4 DEF Segs!Cpunum

LEMMA TrapInitPercpuKeeps ==
  ASSUME Segs!DescriptorsAssumption, IInv, NEW cpu \in Segs!Cpus, Segs!TrapInitPercpu(cpu)
  PROVE  IInv'
<1> USE Facts DEF Segs!At
<1> DEFINE ready == [Segs!SEG16(Segs!STS_T32A, 0, 0) EXCEPT !.s = 0]
           filled == [gdt EXCEPT ![Segs!Entry(Segs!GD_TSS0)] = ready]
<1>1. /\ pc[cpu] = "trap_init_percpu" /\ UNCHANGED <<machine, cpuid, lapic, table, seg, esp, c, lock>>
      /\ ts' = [ts EXCEPT ![0] = Segs!Taskstate(StackTop, Segs!GD_KD)] /\ tr' = [tr EXCEPT ![cpu] = 0]
      /\ gdt' = [filled EXCEPT ![6].type = Segs!STS_T32B]
      /\ Segs!OrFaults(cpu, Segs!TaskLoads(Segs!GD_TSS0, filled))
      /\ pc' = [pc EXCEPT ![cpu] = Following(cpu)]
  BY NextStepIs, Entries DEF Segs!TrapInitPercpu
<1>2. ~Segs!Smp /\ Following(cpu) = "kernel" /\ cpu = 0 /\ Segs!Cpus = {0} /\ machine.bsp = 0
  <2>1. ~Segs!Smp
    BY <1>1 DEF IInv, PlacesOK, Early, Setup, Ready
  <2> QED BY <1>1, <2>1, FollowingInLab3
<1>3. pc' = [pc EXCEPT ![0] = "kernel"]
  BY <1>1, <1>2
<1>4. Segs!Cpus' = Segs!Cpus /\ Segs!Smp' = Segs!Smp /\ Slots' = Slots
  BY <1>1 DEF Segs!Cpus, Segs!Smp, Slots
<1>5. /\ gdt' \in Seq(Desc) /\ Len(gdt') = Len(gdt) /\ \A k \in 1 .. 5 : gdt'[k] = gdt[k]
      /\ Len(filled) = Len(gdt) /\ filled[6] = ready
  <2>1. ready \in Desc /\ [ready EXCEPT !.type = Segs!STS_T32B] \in Desc
    BY DEF Segs!SEG16, Desc, Segs!STS_T32A, Segs!STS_T32B
  <2>2. filled = [gdt EXCEPT ![6] = ready]
    BY Entries
  <2> HIDE DEF filled, ready
  <2>. gdt \in Seq(Desc) /\ 6 \in 6 .. Len(gdt)
    BY DEF IInv, TypeOK
  <2>3. /\ filled \in Seq(Desc) /\ Len(filled) = Len(gdt) /\ filled[6] = ready
        /\ \A k \in 1 .. 5 : filled[k] = gdt[k]
    BY <2>1, <2>2, StoredInGdt
  <2> DEFINE busy == [ready EXCEPT !.type = Segs!STS_T32B]
  <2>4. gdt' = [filled EXCEPT ![6] = busy] /\ busy \in Desc
    BY <1>1, <2>1, <2>3
  <2> HIDE DEF busy
  <2>. 6 \in 6 .. Len(filled) /\ Len(filled) >= 6
    BY <2>3
  <2>5. gdt' \in Seq(Desc) /\ Len(gdt') = Len(filled) /\ \A k \in 1 .. 5 : gdt'[k] = filled[k]
    <3>1. ASSUME NEW h, h = [filled EXCEPT ![6] = busy]
          PROVE  h \in Seq(Desc) /\ Len(h) = Len(filled) /\ \A k \in 1 .. 5 : h[k] = filled[k]
      BY <2>3, <2>4, <3>1, StoredInGdt
    <3> QED BY <2>4, <3>1
  <2> QED BY <2>3, <2>5
<1> HIDE DEF filled, ready
<1>6. TypeOK'
  <2>1. ts' \in [0 .. MaxCpus - 1 -> [esp0 : Int, ss0 : {0, Segs!GD_KD}]]
    BY <1>1 DEF IInv, TypeOK, Segs!Taskstate, Segs!DescriptorsAssumption
  <2>2. tr' \in [Segs!Cpus -> 0 .. MaxCpus] /\ pc' \in [Segs!Cpus -> Place]
    BY <1>1, <1>2, <1>3 DEF IInv, TypeOK, Place
  <2> QED BY <1>1, <1>4, <1>5, <2>1, <2>2 DEF IInv, TypeOK
<1>7. PlacesOK'
  BY <1>1, <1>2, <1>3, <1>4 DEF IInv, TypeOK, PlacesOK, Early, Setup, Ready
<1>8. OrderOK'
  BY <1>1, <1>2, <1>3, <1>4 DEF IInv, OrderOK
<1>9. GdtOK'
  BY <1>2, <1>3, <1>4, <1>5 DEF IInv, TypeOK, GdtOK
<1>10. LoadedOK'
  BY <1>1, <1>2, <1>3, <1>4 DEF IInv, TypeOK, LoadedOK, Ready, Segs!Taskstate, Segs!GD_KD
<1>11. Segs!NoCpuFaults'
  <2>1. Segs!TaskLoads(Segs!GD_TSS0, filled)
    <3>1. Segs!GD_TSS0 + 8 * 0 = Segs!GD_TSS0 /\ 6 + 0 = 6
      BY DEF Segs!GD_TSS0
    <3>2. filled[6 + 0] = [Segs!SEG16(Segs!STS_T32A, 0, 0) EXCEPT !.s = 0] /\ Len(filled) \in Nat
          /\ 6 + 0 <= Len(filled)
      BY <1>5 DEF ready
    <3> QED BY <3>1, <3>2, TssLoads
  <2> QED BY <1>1, <2>1 DEF Segs!OrFaults, IInv, Segs!NoCpuFaults
<1> QED BY <1>6, <1>7, <1>8, <1>9, <1>10, <1>11 DEF IInv

LEMMA TssKeeps ==
  ASSUME Segs!DescriptorsAssumption, IInv, NEW cpu \in Segs!Cpus, Segs!Tss(cpu)
  PROVE  IInv'
<1> USE Facts DEF Segs!At
<1>1. /\ pc[cpu] = "tss" /\ UNCHANGED <<machine, gdt, cpuid, lapic, table, seg, tr, esp, c, lock, faulted>>
      /\ ts' = [ts EXCEPT ![Segs!Cpunum(cpu)] =
           Segs!Taskstate(Segs!KstackTop(cpuid[Segs!Cpunum(cpu)]), Segs!GD_KD)]
      /\ pc' = [pc EXCEPT ![cpu] = Following(cpu)]
  BY NextStepIs DEF Segs!Tss
<1>2. Segs!Smp /\ Following(cpu) = "descriptor" /\ Segs!Cpunum(cpu) \in 0 .. MaxCpus - 1
  <2>1. Segs!Smp
    BY <1>1 DEF IInv, PlacesOK, Early, Setup, Ready
  <2> QED BY <1>1, <2>1, FollowingOnBsp, FollowingOnAp DEF Segs!Cpunum
<1>3. pc' = [pc EXCEPT ![cpu] = "descriptor"]
  BY <1>1, <1>2
<1>4. Segs!Cpus' = Segs!Cpus /\ Segs!Smp' = Segs!Smp /\ Slots' = Slots
      /\ \A d : Segs!Cpunum(d)' = Segs!Cpunum(d)
  BY <1>1 DEF Segs!Cpus, Segs!Smp, Slots, Segs!Cpunum
<1>5. ts' \in [0 .. MaxCpus - 1 -> [esp0 : Int, ss0 : {0, Segs!GD_KD}]]
  <2>1. Segs!KstackTop(cpuid[Segs!Cpunum(cpu)]) \in Int
    BY <1>2, KstackTopType DEF IInv, TypeOK
  <2> QED BY <1>1, <1>2, <2>1 DEF IInv, TypeOK, Segs!Taskstate
<1>6. TypeOK'
  BY <1>1, <1>3, <1>4, <1>5 DEF IInv, TypeOK, Place
<1>7. PlacesOK'
  BY <1>1, <1>2, <1>3, <1>4 DEF IInv, TypeOK, PlacesOK, Early, Setup, Ready
<1>8. OrderOK'
  BY <1>1, <1>2, <1>3, <1>4 DEF IInv, TypeOK, OrderOK, Early, Setup
<1>9. GdtOK'
  BY <1>1, <1>3, <1>4 DEF IInv, TypeOK, GdtOK
<1>10. \A k \in 0 .. MaxCpus - 1 : ts[k].ss0 = Segs!GD_KD => ts'[k].ss0 = Segs!GD_KD
  BY <1>1, <1>2 DEF IInv, TypeOK, Segs!Taskstate
<1>11. ts'[Segs!Cpunum(cpu)].ss0 = Segs!GD_KD
  BY <1>1, <1>2 DEF IInv, TypeOK, Segs!Taskstate
<1>12. \A d \in Segs!Cpus : Segs!Cpunum(d) \in 0 .. MaxCpus - 1
  BY DEF Segs!Cpunum
<1>13. LoadedOK'
  BY <1>1, <1>2, <1>3, <1>4, <1>10, <1>11, <1>12 DEF IInv, TypeOK, LoadedOK, Ready
<1> QED BY <1>1, <1>6, <1>7, <1>8, <1>9, <1>13 DEF IInv, Segs!NoCpuFaults

LEMMA DescriptorKeeps ==
  ASSUME Segs!DescriptorsAssumption, IInv, NEW cpu \in Segs!Cpus, Segs!Descriptor(cpu)
  PROVE  IInv'
<1> USE Facts DEF Segs!At
<1> DEFINE slot == 6 + cpuid[Segs!Cpunum(cpu)]
           desc == [Segs!SEG16(Segs!STS_T32A, Segs!Cpunum(cpu), 0) EXCEPT !.s = 0]
<1>1. /\ pc[cpu] = "descriptor"
      /\ UNCHANGED <<machine, ts, cpuid, lapic, table, seg, tr, esp, c, lock, faulted>>
      /\ gdt' = [gdt EXCEPT ![slot] = desc]
      /\ pc' = [pc EXCEPT ![cpu] = Following(cpu)]
  BY NextStepIs, Entries DEF Segs!Descriptor
<1>2. /\ Segs!Smp /\ Following(cpu) = "ltr" /\ \A d \in Segs!Cpus : Segs!Cpunum(d) \in 0 .. MaxCpus - 1
      /\ slot \in 6 .. 5 + MaxCpus
  <2>1. Segs!Smp
    BY <1>1 DEF IInv, PlacesOK, Early, Setup, Ready
  <2>2. \A d \in Segs!Cpus : Segs!Cpunum(d) \in 0 .. MaxCpus - 1
    BY DEF Segs!Cpunum
  <2>3. cpuid[Segs!Cpunum(cpu)] \in 0 .. MaxCpus - 1
    BY <2>2 DEF IInv, TypeOK
  <2> QED BY <1>1, <2>1, <2>2, <2>3, FollowingOnBsp, FollowingOnAp
<1> HIDE DEF slot, desc
<1>3. pc' = [pc EXCEPT ![cpu] = "ltr"]
  BY <1>1, <1>2
<1>4. Segs!Cpus' = Segs!Cpus /\ Segs!Smp' = Segs!Smp /\ Slots' = Slots
      /\ \A d : Segs!Cpunum(d)' = Segs!Cpunum(d)
  BY <1>1 DEF Segs!Cpus, Segs!Smp, Slots, Segs!Cpunum
<1>5. /\ gdt' \in Seq(Desc) /\ Len(gdt') = Len(gdt) /\ \A k \in 1 .. 5 : gdt'[k] = gdt[k]
      /\ gdt'[slot] = desc /\ \A k \in 6 .. 5 + MaxCpus : k # slot => gdt'[k] = gdt[k]
  <2>1. desc \in Desc
    BY <1>2 DEF desc, Segs!SEG16, Desc, Segs!STS_T32A
  <2>2. gdt \in Seq(Desc) /\ slot \in 6 .. Len(gdt) /\ Len(gdt) = 5 + MaxCpus
    BY <1>2 DEF IInv, TypeOK
  <2> QED BY <1>1, <2>1, <2>2, StoredInGdt
<1>6. TypeOK'
  BY <1>1, <1>3, <1>4, <1>5 DEF IInv, TypeOK, Place
<1>7. PlacesOK'
  BY <1>1, <1>2, <1>3, <1>4 DEF IInv, TypeOK, PlacesOK, Early, Setup, Ready
<1>8. OrderOK'
  BY <1>1, <1>2, <1>3, <1>4 DEF IInv, TypeOK, OrderOK, Early, Setup
<1>9. GdtOK'
  <2> SUFFICES ASSUME NEW d \in Segs!Cpus, pc'[d] = "ltr"
               PROVE  gdt'[6 + cpuid[Segs!Cpunum(d)]] =
                        [Segs!SEG16(Segs!STS_T32A, Segs!Cpunum(d), 0) EXCEPT !.s = 0]
    <3>1. \A k \in 1 .. 5 : gdt'[k] = Segs!Segments[k]
      BY <1>5 DEF IInv, GdtOK
    <3> QED BY <1>1, <1>4, <3>1, Entries DEF GdtOK
  <2>1. CASE d = cpu
    BY <1>5, <2>1 DEF slot, desc
  <2>2. CASE d # cpu
    <3>1. pc[d] = "ltr"
          /\ gdt[6 + cpuid[Segs!Cpunum(d)]] = [Segs!SEG16(Segs!STS_T32A, Segs!Cpunum(d), 0) EXCEPT !.s = 0]
      BY <1>3, <2>2, Entries DEF IInv, TypeOK, GdtOK
    <3>2. cpuid[Segs!Cpunum(d)] # cpuid[Segs!Cpunum(cpu)]
      BY <1>1, <2>2, <3>1, TwoKnowTheirNumbers
    <3>3. 6 + cpuid[Segs!Cpunum(d)] # slot
      BY <1>2, <3>2 DEF slot, IInv, TypeOK
    <3>4. gdt'[6 + cpuid[Segs!Cpunum(d)]] = gdt[6 + cpuid[Segs!Cpunum(d)]]
      <4>1. 6 + cpuid[Segs!Cpunum(d)] \in 6 .. 5 + MaxCpus
        BY Numbers
      <4> QED BY <1>5, <3>3, <4>1
    <3> QED BY <3>1, <3>4
  <2> QED BY <2>1, <2>2
<1>10. LoadedOK'
  BY <1>1, <1>3, <1>4 DEF IInv, TypeOK, LoadedOK, Ready
<1> QED BY <1>1, <1>6, <1>7, <1>8, <1>9, <1>10 DEF IInv, Segs!NoCpuFaults

LEMMA LtrDoes ==
  ASSUME Segs!DescriptorsAssumption, IInv, NEW cpu \in Segs!Cpus, Segs!Ltr(cpu)
  PROVE  /\ Segs!Smp /\ pc[cpu] = "ltr" /\ cpuid[Segs!Cpunum(cpu)] \in 0 .. MaxCpus - 1
         /\ UNCHANGED <<machine, ts, cpuid, lapic, table, seg, esp, c, lock, faulted>>
         /\ pc' = [pc EXCEPT ![cpu] = IF cpu = machine.bsp THEN "mp_init" ELSE "started"]
         /\ tr' = [tr EXCEPT ![cpu] = Segs!Cpunum(cpu)]
         /\ gdt' = [gdt EXCEPT ![6 + cpuid[Segs!Cpunum(cpu)]].type = Segs!STS_T32B]
<1> USE Facts DEF Segs!At
<1> DEFINE k == cpuid[Segs!Cpunum(cpu)]
<1>1. /\ pc[cpu] = "ltr" /\ UNCHANGED <<machine, ts, cpuid, lapic, table, seg, esp, c, lock>>
      /\ k \in Nat => /\ Segs!OrFaults(cpu, Segs!TaskLoads(Segs!GD_TSS0 + 8 * k, gdt))
                      /\ tr' = [tr EXCEPT ![cpu] = gdt[6 + k].base]
                      /\ gdt' = [gdt EXCEPT ![6 + k].type = Segs!STS_T32B]
      /\ pc' = [pc EXCEPT ![cpu] = Following(cpu)]
  BY NextStepIs, Entries DEF Segs!Ltr
<1>2. Segs!Smp /\ k \in 0 .. MaxCpus - 1 /\ Following(cpu) = IF cpu = machine.bsp THEN "mp_init" ELSE "started"
  <2>1. Segs!Smp
    BY <1>1 DEF IInv, PlacesOK, Early, Setup, Ready
  <2> QED BY <1>1, <2>1, FollowingOnBsp, FollowingOnAp DEF Segs!Cpunum, IInv, TypeOK
<1>3. Segs!TaskLoads(Segs!GD_TSS0 + 8 * k, gdt) /\ gdt[6 + k].base = Segs!Cpunum(cpu)
  <2>1. gdt[6 + k] = [Segs!SEG16(Segs!STS_T32A, Segs!Cpunum(cpu), 0) EXCEPT !.s = 0]
    BY <1>1, Entries DEF IInv, GdtOK
  <2>2. k \in Nat /\ 6 + k <= Len(gdt)
    <3>1. k \in 0 .. MaxCpus - 1 /\ Len(gdt) = 5 + MaxCpus
      BY <1>2 DEF IInv, TypeOK
    <3> QED BY <3>1
  <2> QED BY <2>1, <2>2, TssLoads
<1> QED BY <1>1, <1>2, <1>3 DEF Segs!OrFaults

LEMMA LtrKeeps ==
  ASSUME Segs!DescriptorsAssumption, IInv, NEW cpu \in Segs!Cpus, Segs!Ltr(cpu)
  PROVE  IInv'
<1> USE Facts DEF Segs!At
<1> DEFINE k == cpuid[Segs!Cpunum(cpu)]
           after == IF cpu = machine.bsp THEN "mp_init" ELSE "started"
<1>1. /\ pc[cpu] = "ltr" /\ UNCHANGED <<machine, ts, cpuid, lapic, table, seg, esp, c, lock, faulted>>
      /\ Segs!Smp /\ k \in 0 .. MaxCpus - 1
  BY LtrDoes
<1>2. Segs!Smp /\ k \in 0 .. MaxCpus - 1 /\ \A d \in Segs!Cpus : Segs!Cpunum(d) \in 0 .. MaxCpus - 1
  BY <1>1 DEF Segs!Cpunum
<1>4. /\ pc' = [pc EXCEPT ![cpu] = after] /\ tr' = [tr EXCEPT ![cpu] = Segs!Cpunum(cpu)]
      /\ gdt' = [gdt EXCEPT ![6 + k].type = Segs!STS_T32B]
  BY LtrDoes
<1> HIDE DEF k
<1>5. Segs!Cpus' = Segs!Cpus /\ Segs!Smp' = Segs!Smp /\ Slots' = Slots
      /\ \A d : Segs!Cpunum(d)' = Segs!Cpunum(d)
  BY <1>1 DEF Segs!Cpus, Segs!Smp, Slots, Segs!Cpunum
<1>6. /\ gdt' \in Seq(Desc) /\ Len(gdt') = Len(gdt) /\ \A x \in 1 .. 5 : gdt'[x] = gdt[x]
      /\ \A x \in 6 .. 5 + MaxCpus : x # 6 + k => gdt'[x] = gdt[x]
  <2>1. gdt \in Seq(Desc) /\ 6 + k \in 6 .. Len(gdt) /\ Len(gdt) = 5 + MaxCpus
    BY <1>2 DEF IInv, TypeOK
  <2>2. gdt[6 + k] \in Desc
    BY <2>1, ElementOfSeq, LenProperties
  <2>3. [gdt[6 + k] EXCEPT !.type = Segs!STS_T32B] \in Desc
    BY <2>2 DEF Desc, Segs!STS_T32B
  <2>4. gdt' = [gdt EXCEPT ![6 + k] = [gdt[6 + k] EXCEPT !.type = Segs!STS_T32B]]
    BY <1>4
  <2> QED BY <2>1, <2>3, <2>4, StoredInGdt
<1>7. TypeOK'
  <2>1. tr' \in [Segs!Cpus -> 0 .. MaxCpus]
    <3>1. Segs!Cpunum(cpu) \in 0 .. MaxCpus
      BY Numbers
    <3> QED BY <1>4, <3>1 DEF IInv, TypeOK
  <2>2. pc' \in [Segs!Cpus -> Place]
    BY <1>4 DEF IInv, TypeOK, Place
  <2> QED BY <1>1, <1>5, <1>6, <2>2, <2>1 DEF IInv, TypeOK
<1>8. PlacesOK'
  BY <1>1, <1>2, <1>4, <1>5 DEF IInv, TypeOK, PlacesOK, Early, Setup, Ready
<1>9. OrderOK'
  <2>1. CASE cpu = machine.bsp
    <3>1. pc'[machine.bsp] = "mp_init" /\ pc[machine.bsp] = "ltr"
          /\ \A d \in Segs!Cpus \ {machine.bsp} : pc'[d] = pc[d]
      BY <1>1, <1>4, <2>1 DEF IInv, TypeOK
    <3> QED BY <1>1, <1>2, <1>5, <3>1 DEF IInv, OrderOK, Early, Setup
  <2>2. CASE cpu # machine.bsp
    <3>1. pc'[machine.bsp] = pc[machine.bsp] /\ pc[machine.bsp] \notin Early
      BY <1>1, <1>2, <1>4, <2>2 DEF IInv, TypeOK, OrderOK
    <3> QED BY <1>1, <1>2, <1>5, <3>1 DEF IInv, OrderOK
  <2> QED BY <2>1, <2>2
<1>10. GdtOK'
  <2> SUFFICES ASSUME NEW d \in Segs!Cpus, pc'[d] = "ltr"
               PROVE  gdt'[6 + cpuid[Segs!Cpunum(d)]] =
                        [Segs!SEG16(Segs!STS_T32A, Segs!Cpunum(d), 0) EXCEPT !.s = 0]
    <3>1. \A x \in 1 .. 5 : gdt'[x] = Segs!Segments[x]
      BY <1>6 DEF IInv, GdtOK
    <3>2. GdtOK' <=> /\ \A x \in 1 .. 5 : gdt'[x] = Segs!Segments[x]
                     /\ \A d \in Segs!Cpus : pc'[d] = "ltr" =>
                          gdt'[6 + cpuid[Segs!Cpunum(d)]] =
                            [Segs!SEG16(Segs!STS_T32A, Segs!Cpunum(d), 0) EXCEPT !.s = 0]
      BY <1>1, <1>5, Entries DEF GdtOK
    <3> QED BY <3>1, <3>2
  <2>1. d # cpu /\ pc[d] = "ltr"
        /\ gdt[6 + cpuid[Segs!Cpunum(d)]] = [Segs!SEG16(Segs!STS_T32A, Segs!Cpunum(d), 0) EXCEPT !.s = 0]
    BY <1>4, Entries DEF IInv, TypeOK, GdtOK
  <2>2. cpuid[Segs!Cpunum(d)] # k
    BY <1>1, <2>1, TwoKnowTheirNumbers DEF k
  <2>3. 6 + cpuid[Segs!Cpunum(d)] \in 6 .. 5 + MaxCpus /\ 6 + cpuid[Segs!Cpunum(d)] # 6 + k
    <3>1. cpuid[Segs!Cpunum(d)] \in 0 .. MaxCpus - 1 /\ k \in 0 .. MaxCpus - 1
      BY <1>2, Numbers
    <3> QED BY <2>2, <3>1
  <2>4. gdt'[6 + cpuid[Segs!Cpunum(d)]] = gdt[6 + cpuid[Segs!Cpunum(d)]]
    BY <1>6, <2>3
  <2> QED BY <2>1, <2>4
<1>11. LoadedOK'
  BY <1>1, <1>2, <1>4, <1>5 DEF IInv, TypeOK, LoadedOK, Ready
<1> QED BY <1>1, <1>7, <1>8, <1>9, <1>10, <1>11 DEF IInv, Segs!NoCpuFaults

LEMMA MpInitKeeps ==
  ASSUME Segs!DescriptorsAssumption, IInv, NEW cpu \in Segs!Cpus, Segs!MpInit(cpu)
  PROVE  IInv'
<1> USE Facts DEF Segs!At
<1>1. /\ pc[cpu] = "mp_init" /\ UNCHANGED <<machine, gdt, ts, lapic, table, seg, tr, esp, c, lock, faulted>>
      /\ cpuid' = [i \in DOMAIN cpuid |-> IF i \in Segs!Cpus THEN i ELSE cpuid[i]]
      /\ pc' = [pc EXCEPT ![cpu] = Following(cpu)]
  BY NextStepIs DEF Segs!MpInit
<1>2. Segs!Smp /\ cpu = machine.bsp /\ Following(cpu) = "lapic_init"
  <2>1. Segs!Smp /\ cpu = machine.bsp
    BY <1>1 DEF IInv, PlacesOK, Early, Setup, Ready
  <2> QED BY <1>1, <2>1, FollowingOnBsp
<1>3. pc' = [pc EXCEPT ![cpu] = "lapic_init"]
  BY <1>1, <1>2
<1>4. Segs!Cpus' = Segs!Cpus /\ Segs!Smp' = Segs!Smp /\ Slots' = Slots
      /\ \A d : Segs!Cpunum(d)' = Segs!Cpunum(d)
  BY <1>1 DEF Segs!Cpus, Segs!Smp, Slots, Segs!Cpunum
<1>5. ~lapic /\ \A d \in Segs!Cpus \ {cpu} : pc[d] = "reset"
  BY <1>1, <1>2 DEF IInv, OrderOK, Early
<1>6. cpuid' \in [0 .. MaxCpus - 1 -> 0 .. MaxCpus - 1] /\ \A k \in Segs!Cpus : cpuid'[k] = k
  BY <1>1 DEF IInv, TypeOK
<1>7. pc' \in [Segs!Cpus -> Place]
  BY <1>3 DEF IInv, TypeOK, Place
<1>8. TypeOK'
  BY <1>1, <1>4, <1>6, <1>7 DEF IInv, TypeOK
<1>9. PlacesOK'
  BY <1>1, <1>2, <1>3, <1>4 DEF IInv, TypeOK, PlacesOK, Early, Setup, Ready
<1>10. OrderOK'
  BY <1>1, <1>2, <1>3, <1>4, <1>5, <1>6 DEF IInv, TypeOK, OrderOK, Early
<1>11. \A d \in Segs!Cpus : pc'[d] = IF d = cpu THEN "lapic_init" ELSE "reset"
  BY <1>3, <1>5 DEF IInv, TypeOK
<1>12. GdtOK'
  BY <1>1, <1>4, <1>11 DEF IInv, GdtOK
<1>13. LoadedOK'
  BY <1>1, <1>4, <1>11 DEF IInv, TypeOK, LoadedOK, Ready
<1> QED BY <1>1, <1>8, <1>9, <1>10, <1>12, <1>13 DEF IInv, Segs!NoCpuFaults

LEMMA LapicInitKeeps ==
  ASSUME Segs!DescriptorsAssumption, IInv, NEW cpu \in Segs!Cpus, Segs!LapicInit(cpu)
  PROVE  IInv'
<1> USE Facts DEF Segs!At
<1>1. /\ pc[cpu] = "lapic_init" /\ UNCHANGED <<machine, gdt, ts, cpuid, table, seg, tr, esp, c, faulted>>
      /\ lapic' = (machine.ncpu > 1) /\ lock' = cpu
      /\ pc' = [pc EXCEPT ![cpu] = Following(cpu)]
  BY NextStepIs DEF Segs!LapicInit
<1>2. Segs!Smp /\ cpu = machine.bsp /\ Following(cpu) = "boot_aps"
  <2>1. Segs!Smp /\ cpu = machine.bsp
    BY <1>1 DEF IInv, PlacesOK, Early, Setup, Ready
  <2> QED BY <1>1, <2>1, FollowingOnBsp
<1>3. pc' = [pc EXCEPT ![cpu] = "boot_aps"]
  BY <1>1, <1>2
<1>4. Segs!Cpus' = Segs!Cpus /\ Segs!Smp' = Segs!Smp /\ Slots' = Slots
  BY <1>1 DEF Segs!Cpus, Segs!Smp, Slots
<1>5. (\A k \in Segs!Cpus : cpuid[k] = k) /\ \A d \in Segs!Cpus \ {cpu} : pc[d] = "reset"
  BY <1>1, <1>2 DEF IInv, OrderOK, Early
<1>6. pc' \in [Segs!Cpus -> Place] /\ \A d \in Segs!Cpus : pc'[d] = IF d = cpu THEN "boot_aps" ELSE "reset"
  BY <1>3, <1>5 DEF IInv, TypeOK, Place
<1>7. TypeOK'
  <2>1. lapic' \in BOOLEAN
    BY <1>1
  <2> QED BY <1>1, <1>4, <1>6, <2>1 DEF IInv, TypeOK
<1>8. PlacesOK'
  BY <1>1, <1>2, <1>3, <1>4 DEF IInv, TypeOK, PlacesOK, Early, Setup, Ready
<1>9. OrderOK'
  BY <1>1, <1>2, <1>4, <1>5, <1>6 DEF IInv, OrderOK, Early, Setup
<1>10. GdtOK'
  BY <1>1, <1>4, <1>6 DEF IInv, GdtOK
<1>11. LoadedOK'
  BY <1>1, <1>4, <1>6 DEF IInv, TypeOK, LoadedOK, Ready
<1> QED BY <1>1, <1>7, <1>8, <1>9, <1>10, <1>11 DEF IInv, Segs!NoCpuFaults

\* A step that only moves CPU cpu, to a place where it needs nothing that it has not got.
LEMMA MoveKeeps ==
  ASSUME Segs!DescriptorsAssumption, IInv, NEW cpu \in Segs!Cpus, NEW place,
         UNCHANGED <<machine, gdt, ts, cpuid, lapic, table, tr>>,
         pc' = [pc EXCEPT ![cpu] = place], esp' \in [Segs!Cpus -> Int], c' \in Nat, c' <= machine.ncpu,
         \/ pc[cpu] = "reset" /\ place = "mp_main" /\ Segs!Smp /\ cpu # machine.bsp
              /\ pc[machine.bsp] \notin Early
         \/ pc[cpu] = "mp_main" /\ place = "env_init_percpu" /\ Segs!Smp
         \/ pc[cpu] \in Ready \cup {"boot_aps", "started"} /\ place \in {"lock", "kernel", "user", "halted"}
            /\ (Segs!Smp \/ place \in {"kernel", "user"})
  PROVE  TypeOK' /\ PlacesOK' /\ OrderOK' /\ GdtOK' /\ LoadedOK'
<1> USE Facts
<1>1. Segs!Cpus' = Segs!Cpus /\ Segs!Smp' = Segs!Smp /\ Slots' = Slots
      /\ \A d : Segs!Cpunum(d)' = Segs!Cpunum(d)
  BY DEF Segs!Cpus, Segs!Smp, Slots, Segs!Cpunum
<1>2. place \in Place /\ place \notin {"descriptor", "ltr"}
  BY DEF Place
<1>3. pc' \in [Segs!Cpus -> Place] /\ \A d \in Segs!Cpus : pc'[d] = IF d = cpu THEN place ELSE pc[d]
  BY <1>2 DEF IInv, TypeOK
<1>4. TypeOK'
  BY <1>1, <1>3 DEF IInv, TypeOK
<1>5. PlacesOK'
  BY <1>1, <1>3 DEF IInv, PlacesOK, Early, Setup, Ready
<1>6. OrderOK'
  BY <1>1, <1>3 DEF IInv, PlacesOK, OrderOK, Early, Setup, Ready
<1>7. GdtOK'
  BY <1>1, <1>2, <1>3 DEF IInv, GdtOK
<1>8. LoadedOK'
  BY <1>1, <1>2, <1>3 DEF IInv, LoadedOK, Ready
<1> QED BY <1>4, <1>5, <1>6, <1>7, <1>8

LEMMA MpMainKeeps ==
  ASSUME Segs!DescriptorsAssumption, IInv, NEW cpu \in Segs!Cpus, Segs!MpMain(cpu)
  PROVE  IInv'
<1> USE Facts DEF Segs!At
<1>1. /\ pc[cpu] \in {"mp_main", "started"}
      /\ UNCHANGED <<machine, gdt, ts, cpuid, lapic, table, seg, tr, esp, c, lock, faulted>>
      /\ pc' = [pc EXCEPT ![cpu] = Following(cpu)]
  BY NextStepIs DEF Segs!MpMain
<1>2. Segs!Smp /\ cpu # machine.bsp
  BY <1>1 DEF IInv, PlacesOK, Early, Setup, Ready
<1>3. Following(cpu) = IF pc[cpu] = "mp_main" THEN "env_init_percpu" ELSE "lock"
  BY <1>1, <1>2, FollowingOnAp
<1>4. TypeOK' /\ PlacesOK' /\ OrderOK' /\ GdtOK' /\ LoadedOK'
  <2>1. esp' \in [Segs!Cpus -> Int] /\ c' \in Nat /\ c' <= machine.ncpu
    BY <1>1 DEF IInv, TypeOK
  <2> QED BY <1>1, <1>2, <1>3, <2>1, MoveKeeps
<1> QED BY <1>1, <1>4 DEF IInv, Segs!NoCpuFaults

LEMMA BootApKeeps ==
  ASSUME Segs!DescriptorsAssumption, IInv, NEW cpu \in Segs!Cpus, Segs!BootAp(cpu)
  PROVE  IInv'
<1> USE Facts DEF Segs!At
<1>1. /\ pc[cpu] = "boot_aps" /\ UNCHANGED <<machine, gdt, ts, cpuid, lapic, table, seg, tr, lock, faulted>>
  BY DEF Segs!BootAp
<1>2. Segs!Smp /\ cpu = machine.bsp /\ pc[machine.bsp] \notin Early
  BY <1>1 DEF IInv, PlacesOK, Early, Setup, Ready
<1>3. (\A k \in Segs!Cpus : cpuid[k] = k) /\ Segs!Cpunum(cpu) = cpu
  BY <1>2 DEF IInv, OrderOK, Segs!Cpunum, Segs!Cpus
<1>4. TypeOK' /\ PlacesOK' /\ OrderOK' /\ GdtOK' /\ LoadedOK'
  <2>1. CASE c < machine.ncpu /\ c' = c + 1 /\ UNCHANGED <<esp, pc>>
    <3>1. c' \in Nat /\ c' <= machine.ncpu
      <4>1. c \in Nat /\ machine.ncpu \in Nat
        BY DEF IInv, TypeOK
      <4> QED BY <2>1, <4>1
    <3>2. Segs!Cpus' = Segs!Cpus /\ Segs!Smp' = Segs!Smp /\ Slots' = Slots
          /\ \A d : Segs!Cpunum(d)' = Segs!Cpunum(d)
      BY <1>1 DEF Segs!Cpus, Segs!Smp, Slots, Segs!Cpunum
    <3> QED BY <1>1, <2>1, <3>1, <3>2 DEF IInv, TypeOK, PlacesOK, OrderOK, GdtOK, LoadedOK
  <2>2. CASE /\ c < machine.ncpu /\ c # Segs!Cpunum(cpu) /\ pc[cpuid[c]] = "reset"
             /\ pc' = [pc EXCEPT ![cpuid[c]] = "mp_main"]
             /\ esp' = [esp EXCEPT ![cpuid[c]] = Segs!PercpuKstack(c) + StackSize] /\ UNCHANGED c
    <3>1. c \in Segs!Cpus /\ cpuid[c] = c /\ c # machine.bsp
      BY <1>2, <1>3, <2>2 DEF IInv, TypeOK, Segs!Cpus
    <3>2. esp' \in [Segs!Cpus -> Int] /\ c' \in Nat /\ c' <= machine.ncpu
      BY <2>2, <3>1, KstackTopType DEF IInv, TypeOK
    <3> QED BY <1>1, <1>2, <2>2, <3>1, <3>2, MoveKeeps
  <2>3. CASE c = machine.ncpu /\ Segs!NextStep(cpu) /\ UNCHANGED <<esp, c>>
    <3>1. pc' = [pc EXCEPT ![cpu] = "kernel"]
      BY <1>1, <1>2, <2>3, NextStepIs, FollowingOnBsp
    <3>2. esp' \in [Segs!Cpus -> Int] /\ c' \in Nat /\ c' <= machine.ncpu
      BY <2>3 DEF IInv, TypeOK
    <3> QED BY <1>1, <1>2, <3>1, <3>2, MoveKeeps
  <2> QED BY <2>1, <2>2, <2>3 DEF Segs!BootAp
<1> QED BY <1>1, <1>4 DEF IInv, Segs!NoCpuFaults

LEMMA LockKernelKeeps ==
  ASSUME Segs!DescriptorsAssumption, IInv, NEW cpu \in Segs!Cpus, Segs!LockKernel(cpu)
  PROVE  IInv'
<1> USE Facts DEF Segs!At
<1>1. /\ pc[cpu] = "lock" /\ UNCHANGED <<machine, gdt, ts, cpuid, lapic, table, seg, tr, esp, c, faulted>>
      /\ pc' = [pc EXCEPT ![cpu] = "kernel"]
  BY DEF Segs!LockKernel
<1>2. esp' \in [Segs!Cpus -> Int] /\ c' \in Nat /\ c' <= machine.ncpu
  BY <1>1 DEF IInv, TypeOK
<1>3. TypeOK' /\ PlacesOK' /\ OrderOK' /\ GdtOK' /\ LoadedOK'
  BY <1>1, <1>2, MoveKeeps DEF Ready
<1> QED BY <1>1, <1>3 DEF IInv, Segs!NoCpuFaults

LEMMA IretKeeps ==
  ASSUME Segs!DescriptorsAssumption, IInv, NEW cpu \in Segs!Cpus, Segs!Iret(cpu)
  PROVE  IInv'
<1> USE Facts DEF Segs!At
<1> DEFINE ok == /\ Segs!DataLoads(Segs!GD_UD + 3, 0, Segs!Loaded(cpu))
                 /\ Segs!StackLoads(Segs!GD_UD + 3, 3, Segs!Loaded(cpu))
                 /\ Segs!CodeLoads(Segs!GD_UT + 3, 3, Segs!Loaded(cpu))
<1>1. /\ pc[cpu] = "kernel" /\ UNCHANGED <<machine, gdt, ts, cpuid, lapic, table, tr, c>>
      /\ pc' = [pc EXCEPT ![cpu] = "user"] /\ esp' = [esp EXCEPT ![cpu] = 0] /\ Segs!OrFaults(cpu, ok)
  BY DEF Segs!Iret
<1>2. esp' \in [Segs!Cpus -> Int] /\ c' \in Nat /\ c' <= machine.ncpu
  BY <1>1 DEF IInv, TypeOK
<1>3. TypeOK' /\ PlacesOK' /\ OrderOK' /\ GdtOK' /\ LoadedOK'
  BY <1>1, <1>2, MoveKeeps DEF Ready
<1>4. ok
  <2>1. Segs!Loaded(cpu) = gdt
    BY <1>1 DEF Segs!Loaded, IInv, LoadedOK, Ready
  <2> QED BY <2>1, SegmentsLoad DEF IInv, GdtOK
<1> HIDE DEF ok
<1> QED BY <1>1, <1>3, <1>4 DEF IInv, Segs!NoCpuFaults, Segs!OrFaults

LEMMA SchedHaltKeeps ==
  ASSUME Segs!DescriptorsAssumption, IInv, NEW cpu \in Segs!Cpus, Segs!SchedHalt(cpu)
  PROVE  IInv'
<1> USE Facts DEF Segs!At
<1>1. /\ pc[cpu] = "kernel" /\ Segs!Smp
      /\ UNCHANGED <<machine, gdt, ts, cpuid, lapic, table, seg, tr, c, faulted>>
      /\ pc' = [pc EXCEPT ![cpu] = "halted"] /\ esp' = [esp EXCEPT ![cpu] = ts[Segs!Cpunum(cpu)].esp0]
  BY DEF Segs!SchedHalt
<1>2. esp' \in [Segs!Cpus -> Int] /\ c' \in Nat /\ c' <= machine.ncpu
  BY <1>1, Numbers DEF IInv, TypeOK
<1>3. TypeOK' /\ PlacesOK' /\ OrderOK' /\ GdtOK' /\ LoadedOK'
  BY <1>1, <1>2, MoveKeeps DEF Ready
<1> QED BY <1>1, <1>3 DEF IInv, Segs!NoCpuFaults

LEMMA TrapKeeps ==
  ASSUME Segs!DescriptorsAssumption, IInv, NEW cpu \in Segs!Cpus, Segs!Trap(cpu)
  PROVE  IInv'
<1> USE Facts DEF Segs!At
<1> DEFINE ok == /\ pc[cpu] = "user" => Segs!StackLoads(ts[tr[cpu]].ss0, 0, Segs!Loaded(cpu))
                 /\ Segs!CodeLoads(Segs!GD_KT, 0, Segs!Loaded(cpu))
                 /\ Segs!DataLoads(Segs!GD_KD, 0, Segs!Loaded(cpu))
           place == IF Segs!Smp THEN "lock" ELSE "kernel"
<1>1. /\ pc[cpu] \in {"user", "halted"} /\ UNCHANGED <<machine, gdt, ts, cpuid, lapic, table, tr, c, lock>>
      /\ esp' = IF pc[cpu] = "user" THEN [esp EXCEPT ![cpu] = ts[tr[cpu]].esp0] ELSE esp
      /\ pc' = [pc EXCEPT ![cpu] = place] /\ Segs!OrFaults(cpu, ok)
  BY DEF Segs!Trap
<1>2. tr[cpu] \in 0 .. MaxCpus - 1 /\ ts[tr[cpu]].ss0 = Segs!GD_KD
  BY <1>1 DEF IInv, LoadedOK, Ready
<1>3. esp' \in [Segs!Cpus -> Int] /\ c' \in Nat /\ c' <= machine.ncpu
  BY <1>1, <1>2 DEF IInv, TypeOK
<1>4. TypeOK' /\ PlacesOK' /\ OrderOK' /\ GdtOK' /\ LoadedOK'
  BY <1>1, <1>3, MoveKeeps DEF Ready
<1>5. ok
  <2>1. Segs!Loaded(cpu) = gdt
    BY <1>1 DEF Segs!Loaded, IInv, LoadedOK, Ready
  <2>2. Segs!StackLoads(Segs!GD_KD, 0, gdt) /\ Segs!CodeLoads(Segs!GD_KT, 0, gdt)
        /\ Segs!DataLoads(Segs!GD_KD, 0, gdt)
    BY SegmentsLoad DEF IInv, GdtOK
  <2> QED BY <1>2, <2>1, <2>2
<1> HIDE DEF ok
<1> QED BY <1>1, <1>4, <1>5 DEF IInv, Segs!NoCpuFaults, Segs!OrFaults

LEMMA NextKeeps == ASSUME Segs!DescriptorsAssumption, IInv, [Segs!Next]_(Segs!vars) PROVE IInv'
<1>1. CASE UNCHANGED Segs!vars
  <2>1. Segs!Cpus' = Segs!Cpus /\ Segs!Smp' = Segs!Smp /\ Slots' = Slots
        /\ \A d : Segs!Cpunum(d)' = Segs!Cpunum(d)
    BY <1>1 DEF Segs!vars, Segs!Cpus, Segs!Smp, Slots, Segs!Cpunum
  <2> QED BY <1>1, <2>1 DEF Segs!vars, IInv, TypeOK, PlacesOK, OrderOK, GdtOK, LoadedOK, Segs!NoCpuFaults
<1>2. CASE Segs!Next
  BY <1>2, EnvInitPercpuKeeps, TrapInitPercpuKeeps, TssKeeps, DescriptorKeeps, LtrKeeps, MpInitKeeps,
     LapicInitKeeps, BootApKeeps, MpMainKeeps, LockKernelKeeps, IretKeeps, SchedHaltKeeps, TrapKeeps
  DEF Segs!Next
<1> QED BY <1>1, <1>2

LEMMA Inductive == ASSUME Segs!DescriptorsAssumption PROVE Segs!Spec => []IInv
<1>1. Segs!Init => IInv
  BY Initially
<1>2. IInv /\ [Segs!Next]_(Segs!vars) => IInv'
  BY NextKeeps
<1> QED BY <1>1, <1>2, PTL DEF Segs!Spec

\* No CPU, in whatever order they start, loads a selector that faults: neither a
\* segment nor a TSS that another CPU has made busy.
THEOREM SelectorsLoad == ASSUME Segs!DescriptorsAssumption PROVE Segs!Spec => []Segs!NoCpuFaults
<1>1. IInv => Segs!NoCpuFaults
  BY DEF IInv
<1> QED BY <1>1, Inductive, PTL
-----------------------------------------------------------------------------
(* Stacks *)

\* The stacks of two CPUs share no byte: those that mem_init_mp maps under
\* StackTop, with gaps, and those of percpu_kstacks, without.
LEMMA StacksAreApart ==
  ASSUME Segs!DescriptorsAssumption, NEW k \in 0 .. MaxCpus - 1,
         NEW sp \in {Segs!KstackTop(k), Segs!PercpuKstack(k) + StackSize}
  PROVE  Segs!StackOwner(sp) = {k}
<1> DEFINE size == StackSize + StackGap
<1>1. /\ StackSize \in Nat /\ StackSize >= 1 /\ size \in Nat /\ size >= StackSize
      /\ StackTop \in Nat /\ Kstacks \in Nat /\ Kstacks >= StackTop /\ MaxCpus \in Nat
  BY DEF Segs!DescriptorsAssumption
<1> HIDE DEF size
<1>2. \A j \in Nat : Segs!KstackTop(j) = StackTop - j * size /\ Segs!PercpuKstack(j) = Kstacks + j * StackSize
  BY DEF Segs!KstackTop, Segs!PercpuKstack, size
<1>3. \A j \in Nat : j * size \in Nat /\ j * StackSize \in Nat
  BY <1>1
<1>4. \A j, l \in Nat : j < l => l * size >= j * size + size /\ l * StackSize >= j * StackSize + StackSize
  <2> SUFFICES ASSUME NEW j \in Nat, NEW l \in Nat, j < l
               PROVE  l * size >= j * size + size /\ l * StackSize >= j * StackSize + StackSize
    OBVIOUS
  <2>1. \A d \in Nat : l * d >= j * d + d
    OBVIOUS
  <2> QED BY <1>1, <2>1
<1>5. k \in Nat
  BY <1>1
<1>6. ASSUME NEW j \in 0 .. MaxCpus - 1
      PROVE  (\/ sp \in Segs!KstackTop(j) - StackSize + 1 .. Segs!KstackTop(j)
              \/ sp \in Segs!PercpuKstack(j) + 1 .. Segs!PercpuKstack(j) + StackSize) <=> j = k
  <2>1. j \in Nat
    BY <1>1
  <2> DEFINE a == k * size
             b == j * size
             x == k * StackSize
             y == j * StackSize
  <2>2. a \in Nat /\ b \in Nat /\ x \in Nat /\ y \in Nat
    BY <1>3, <1>5, <2>1
  <2>3. /\ j < k => a >= b + size /\ x >= y + StackSize
        /\ k < j => b >= a + size /\ y >= x + StackSize
        /\ j = k => a = b /\ x = y
    BY <1>4, <1>5, <2>1
  <2>4. /\ Segs!KstackTop(k) = StackTop - a /\ Segs!KstackTop(j) = StackTop - b
        /\ Segs!PercpuKstack(k) = Kstacks + x /\ Segs!PercpuKstack(j) = Kstacks + y
    BY <1>2, <1>5, <2>1
  <2> HIDE DEF a, b, x, y
  <2>5. CASE sp = StackTop - a
    <3>1. sp \notin Kstacks + y + 1 .. Kstacks + y + StackSize
      BY <1>1, <2>2, <2>5
    <3>2. sp \in StackTop - b - StackSize + 1 .. StackTop - b <=> j = k
      BY <1>1, <1>5, <2>1, <2>2, <2>3, <2>5
    <3> QED BY <2>4, <3>1, <3>2
  <2>6. CASE sp = Kstacks + x + StackSize
    <3>1. sp \notin StackTop - b - StackSize + 1 .. StackTop - b
      BY <1>1, <2>2, <2>6
    <3>2. sp \in Kstacks + y + 1 .. Kstacks + y + StackSize <=> j = k
      BY <1>1, <1>5, <2>1, <2>2, <2>3, <2>6
    <3> QED BY <2>4, <3>1, <3>2
  <2> QED BY <2>4, <2>5, <2>6
<1> QED BY <1>6 DEF Segs!StackOwner

\* Where the loaded TSS of a CPU that got past ltr and its stack pointer are.
After == Ready \cup {"mp_init", "lapic_init", "boot_aps", "started"}
StackOK ==
  Segs!Smp /\ machine.bsp = 0 => \A cpu \in Segs!Cpus :
    /\ esp[cpu] \in {0, Segs!KstackTop(cpu), Segs!PercpuKstack(cpu) + StackSize}
    /\ pc[cpu] \in After \cup {"descriptor", "ltr"} => ts[cpu].esp0 = Segs!KstackTop(cpu)
    /\ pc[cpu] \in After => tr[cpu] = cpu

LEMMA StacksThen ==
  ASSUME Segs!DescriptorsAssumption, IInv, StackOK
  PROVE  Segs!StacksAreOwn
<1> SUFFICES ASSUME Segs!Smp, machine.bsp = 0, NEW cpu \in Segs!Cpus
             PROVE  /\ esp[cpu] # 0 => Segs!StackOwner(esp[cpu]) = {cpu}
                    /\ pc[cpu] \in {"lock", "kernel", "user", "halted"} => tr[cpu] = cpu
  BY DEF Segs!StacksAreOwn
<1>1. cpu \in 0 .. MaxCpus - 1
  BY Facts
<1> QED BY <1>1, StacksAreApart DEF StackOK, After, Ready

\* With CPU 0 as boot processor everybody is the number that it takes itself for.
LEMMA OwnNumbers ==
  ASSUME Segs!DescriptorsAssumption, IInv, Segs!Smp, machine.bsp = 0, NEW cpu \in Segs!Cpus, pc[cpu] # "reset"
  PROVE  Segs!Cpunum(cpu) = cpu /\ cpuid[cpu] = cpu
<1> USE Facts
<1>1. CASE pc[machine.bsp] \in Early
  <2>1. ~lapic /\ cpu = 0
    BY <1>1 DEF IInv, OrderOK
  <2>2. cpuid[0] = 0
    <3>1. 0 \in 0 .. MaxCpus - 1
      OBVIOUS
    <3> QED BY <1>1, <3>1 DEF IInv, OrderOK
  <2> QED BY <2>1, <2>2 DEF Segs!Cpunum
<1>2. CASE pc[machine.bsp] \notin Early
  <2>1. (lapic <=> machine.ncpu > 1) /\ cpuid[cpu] = cpu
    BY <1>2 DEF IInv, OrderOK
  <2>2. machine.ncpu > 1 \/ cpu = 0
    BY DEF Segs!Cpus
  <2> QED BY <2>1, <2>2 DEF Segs!Cpunum
<1> QED BY <1>1, <1>2

\* A step of CPU cpu that leaves the TSSs alone.
LEMMA StackMove ==
  ASSUME Segs!DescriptorsAssumption, IInv, StackOK, NEW cpu \in Segs!Cpus, NEW place, NEW sp,
         UNCHANGED <<machine, ts, tr>>, pc' = [pc EXCEPT ![cpu] = place],
         esp' = esp \/ esp' = [esp EXCEPT ![cpu] = sp],
         machine.bsp = 0 => sp \in {0, Segs!KstackTop(cpu), Segs!PercpuKstack(cpu) + StackSize},
         place \in After => pc[cpu] \in After,
         place \in {"descriptor", "ltr"} => pc[cpu] \in {"descriptor", "ltr"}
  PROVE  StackOK'
<1>1. Segs!Cpus' = Segs!Cpus /\ Segs!Smp' = Segs!Smp
  BY DEF Segs!Cpus, Segs!Smp
<1>2. /\ \A d \in Segs!Cpus : pc'[d] = IF d = cpu THEN place ELSE pc[d]
      /\ \A d \in Segs!Cpus : esp'[d] = esp[d] \/ (d = cpu /\ esp'[d] = sp)
  BY DEF IInv, TypeOK
<1>3. \A d : Segs!KstackTop(d)' = Segs!KstackTop(d) /\ Segs!PercpuKstack(d)' = Segs!PercpuKstack(d)
  BY DEF Segs!KstackTop, Segs!PercpuKstack
<1> QED BY <1>1, <1>2, <1>3 DEF StackOK

LEMMA StackInitially == ASSUME Segs!DescriptorsAssumption, Segs!Init PROVE StackOK
<1>1. \A cpu \in Segs!Cpus :
        /\ esp[cpu] = 0
        /\ pc[cpu] = IF Segs!Smp /\ cpu # machine.bsp THEN "reset" ELSE "env_init_percpu"
  BY DEF Segs!Init, Segs!Steps, Segs!Lab3Steps, Segs!BspSteps, Segs!ApSteps
<1> QED BY <1>1 DEF StackOK, After, Ready

LEMMA StackKeeps ==
  ASSUME Segs!DescriptorsAssumption, IInv, StackOK, [Segs!Next]_(Segs!vars)
  PROVE  StackOK'
<1> USE Facts DEF Segs!At
<1>1. CASE UNCHANGED Segs!vars
  BY <1>1 DEF Segs!vars, StackOK, Segs!Cpus, Segs!Smp, Segs!KstackTop, Segs!PercpuKstack
<1>2. ASSUME NEW cpu \in Segs!Cpus, Segs!EnvInitPercpu(cpu) PROVE StackOK'
  <2>1. Following(cpu) \in {"tss", "trap_init_percpu"} /\ pc' = [pc EXCEPT ![cpu] = Following(cpu)]
    BY <1>2, NextStepIs, FollowingInLab3, FollowingOnBsp, FollowingOnAp DEF Segs!EnvInitPercpu
  <2>2. UNCHANGED <<machine, ts, tr, esp>>
    BY <1>2 DEF Segs!EnvInitPercpu
  <2> QED BY <2>1, <2>2, StackMove DEF After, Ready
<1>3. ASSUME NEW cpu \in Segs!Cpus, Segs!TrapInitPercpu(cpu) PROVE StackOK'
  BY <1>3 DEF Segs!TrapInitPercpu, IInv, PlacesOK, Early, Setup, Ready, StackOK, Segs!Smp
<1>4. ASSUME NEW cpu \in Segs!Cpus, Segs!Tss(cpu) PROVE StackOK'
  <2> SUFFICES ASSUME Segs!Smp, machine.bsp = 0 PROVE StackOK'
    BY <1>4 DEF Segs!Tss, StackOK, Segs!Smp
  <2>1. Segs!Cpunum(cpu) = cpu /\ cpuid[cpu] = cpu
    BY <1>4, OwnNumbers DEF Segs!Tss
  <2>2. /\ UNCHANGED <<machine, esp, tr>>
        /\ ts' = [ts EXCEPT ![cpu] = Segs!Taskstate(Segs!KstackTop(cpu), Segs!GD_KD)]
        /\ pc[cpu] = "tss" /\ pc' = [pc EXCEPT ![cpu] = "descriptor"]
    BY <1>4, <2>1, NextStepIs, FollowingOnBsp, FollowingOnAp DEF Segs!Tss
  <2>3. Segs!Cpus' = Segs!Cpus /\ Segs!Smp' = Segs!Smp
    BY <2>2 DEF Segs!Cpus, Segs!Smp
  <2>4. \A d \in Segs!Cpus : /\ pc'[d] = IF d = cpu THEN "descriptor" ELSE pc[d]
                        /\ ts'[d].esp0 = IF d = cpu THEN Segs!KstackTop(cpu) ELSE ts[d].esp0
    BY <2>2 DEF IInv, TypeOK, Segs!Taskstate
  <2>5. \A d : Segs!KstackTop(d)' = Segs!KstackTop(d) /\ Segs!PercpuKstack(d)' = Segs!PercpuKstack(d)
    BY DEF Segs!KstackTop, Segs!PercpuKstack
  <2> QED BY <2>2, <2>3, <2>4, <2>5 DEF StackOK, After, Ready
<1>5. ASSUME NEW cpu \in Segs!Cpus, Segs!Descriptor(cpu) PROVE StackOK'
  <2>1. UNCHANGED <<machine, ts, tr, esp>> /\ pc[cpu] = "descriptor" /\ Segs!Smp
    BY <1>5 DEF Segs!Descriptor, IInv, PlacesOK, Early, Setup, Ready
  <2>2. pc' = [pc EXCEPT ![cpu] = "ltr"]
    BY <1>5, <2>1, NextStepIs, FollowingOnBsp, FollowingOnAp DEF Segs!Descriptor
  <2> QED BY <2>1, <2>2, StackMove DEF After, Ready
<1>6. ASSUME NEW cpu \in Segs!Cpus, Segs!Ltr(cpu) PROVE StackOK'
  <2> SUFFICES ASSUME Segs!Smp, machine.bsp = 0 PROVE StackOK'
    BY <1>6, LtrDoes DEF StackOK, Segs!Smp
  <2> DEFINE after == IF cpu = machine.bsp THEN "mp_init" ELSE "started"
  <2>1. /\ UNCHANGED <<machine, ts, esp>> /\ pc[cpu] = "ltr"
        /\ tr' = [tr EXCEPT ![cpu] = Segs!Cpunum(cpu)] /\ pc' = [pc EXCEPT ![cpu] = after]
    BY <1>6, LtrDoes
  <2>2. Segs!Cpunum(cpu) = cpu
    BY <2>1, OwnNumbers
  <2>3. Segs!Cpus' = Segs!Cpus /\ Segs!Smp' = Segs!Smp
    BY <2>1 DEF Segs!Cpus, Segs!Smp
  <2>4. after \in After
    BY DEF After
  <2> HIDE DEF after
  <2>5. \A d \in Segs!Cpus : /\ pc'[d] = IF d = cpu THEN after ELSE pc[d]
                        /\ tr'[d] = IF d = cpu THEN cpu ELSE tr[d]
    BY <2>1, <2>2 DEF IInv, TypeOK
  <2>6. \A d : Segs!KstackTop(d)' = Segs!KstackTop(d) /\ Segs!PercpuKstack(d)' = Segs!PercpuKstack(d)
    BY DEF Segs!KstackTop, Segs!PercpuKstack
  <2> QED BY <2>1, <2>3, <2>4, <2>5, <2>6 DEF StackOK
<1>7. ASSUME NEW cpu \in Segs!Cpus,
             Segs!MpInit(cpu) \/ Segs!LapicInit(cpu) \/ Segs!MpMain(cpu) \/ Segs!LockKernel(cpu)
      PROVE  StackOK'
  <2>1. UNCHANGED <<machine, ts, tr, esp>>
    BY <1>7 DEF Segs!MpInit, Segs!LapicInit, Segs!MpMain, Segs!LockKernel
  <2>2. Segs!Smp \/ pc[cpu] = "lock"
    BY <1>7 DEF Segs!MpInit, Segs!LapicInit, Segs!MpMain, Segs!LockKernel, IInv, PlacesOK, Early, Setup,
      Ready
  <2>3. PICK place : /\ pc' = [pc EXCEPT ![cpu] = place]
                     /\ (place \in After /\ pc[cpu] \in After) \/ place = "env_init_percpu"
    <3>1. CASE Segs!MpInit(cpu)
      BY <2>2, <3>1, NextStepIs, FollowingOnBsp DEF Segs!MpInit, After, IInv, PlacesOK, Setup, Ready
    <3>2. CASE Segs!LapicInit(cpu)
      BY <2>2, <3>2, NextStepIs, FollowingOnBsp DEF Segs!LapicInit, After, IInv, PlacesOK, Setup, Ready
    <3>3. CASE Segs!MpMain(cpu)
      <4>1. pc[cpu] \in {"mp_main", "started"} /\ pc' = [pc EXCEPT ![cpu] = Following(cpu)] /\ Segs!Smp
        BY <2>2, <3>3, NextStepIs DEF Segs!MpMain
      <4>2. cpu # machine.bsp
        BY <4>1 DEF IInv, PlacesOK, Early, Setup, Ready
      <4> QED BY <4>1, <4>2, FollowingOnAp DEF After, Ready
    <3>4. CASE Segs!LockKernel(cpu)
      BY <3>4 DEF Segs!LockKernel, After, Ready
    <3> QED BY <1>7, <3>1, <3>2, <3>3, <3>4
  <2> QED BY <2>1, <2>3, StackMove DEF After, Ready
<1>8. ASSUME NEW cpu \in Segs!Cpus, Segs!BootAp(cpu) PROVE StackOK'
  <2>1. /\ pc[cpu] = "boot_aps" /\ UNCHANGED <<machine, ts, tr>> /\ Segs!Smp /\ cpu = machine.bsp
    BY <1>8 DEF Segs!BootAp, IInv, PlacesOK, Early, Setup, Ready
  <2>2. \A k \in Segs!Cpus : cpuid[k] = k
    BY <2>1 DEF IInv, OrderOK, Early, Setup
  <2>3. CASE UNCHANGED <<esp, pc>>
    BY <2>1, <2>3 DEF StackOK, Segs!Cpus, Segs!Smp, Segs!KstackTop, Segs!PercpuKstack
  <2>4. CASE /\ c < machine.ncpu /\ pc[cpuid[c]] = "reset"
             /\ pc' = [pc EXCEPT ![cpuid[c]] = "mp_main"]
             /\ esp' = [esp EXCEPT ![cpuid[c]] = Segs!PercpuKstack(c) + StackSize]
    <3>1. c \in Segs!Cpus /\ cpuid[c] = c
      BY <2>2, <2>4 DEF IInv, TypeOK, Segs!Cpus
    <3>2. /\ pc' = [pc EXCEPT ![c] = "mp_main"] /\ esp' = [esp EXCEPT ![c] = Segs!PercpuKstack(c) + StackSize]
      BY <2>4, <3>1
    <3> QED BY <2>1, <3>1, <3>2, StackMove DEF After, Ready
  <2>5. CASE Segs!NextStep(cpu) /\ UNCHANGED esp
    <3>1. pc' = [pc EXCEPT ![cpu] = "kernel"]
      BY <2>1, <2>5, NextStepIs, FollowingOnBsp
    <3> QED BY <2>1, <2>5, <3>1, StackMove DEF After, Ready
  <2> QED BY <1>8, <2>3, <2>4, <2>5 DEF Segs!BootAp
<1>9. ASSUME NEW cpu \in Segs!Cpus, Segs!Iret(cpu) PROVE StackOK'
  <2>1. /\ UNCHANGED <<machine, ts, tr>> /\ pc[cpu] = "kernel"
        /\ pc' = [pc EXCEPT ![cpu] = "user"] /\ esp' = [esp EXCEPT ![cpu] = 0]
    BY <1>9 DEF Segs!Iret
  <2> QED BY <2>1, StackMove DEF After, Ready
<1>10. ASSUME NEW cpu \in Segs!Cpus, Segs!SchedHalt(cpu) PROVE StackOK'
  <2>1. /\ UNCHANGED <<machine, ts, tr>> /\ pc[cpu] = "kernel" /\ Segs!Smp
        /\ pc' = [pc EXCEPT ![cpu] = "halted"] /\ esp' = [esp EXCEPT ![cpu] = ts[Segs!Cpunum(cpu)].esp0]
    BY <1>10 DEF Segs!SchedHalt
  <2>2. machine.bsp = 0 => ts[Segs!Cpunum(cpu)].esp0 = Segs!KstackTop(cpu)
    BY <2>1, OwnNumbers DEF StackOK, After, Ready
  <2> QED BY <2>1, <2>2, StackMove DEF After, Ready
<1>11. ASSUME NEW cpu \in Segs!Cpus, Segs!Trap(cpu) PROVE StackOK'
  <2> SUFFICES ASSUME Segs!Smp PROVE StackOK'
    BY <1>11 DEF Segs!Trap, StackOK, Segs!Smp
  <2>1. /\ UNCHANGED <<machine, ts, tr>> /\ pc[cpu] \in {"user", "halted"}
        /\ pc' = [pc EXCEPT ![cpu] = "lock"]
        /\ esp' = esp \/ esp' = [esp EXCEPT ![cpu] = ts[tr[cpu]].esp0]
    BY <1>11 DEF Segs!Trap
  <2>2. machine.bsp = 0 => ts[tr[cpu]].esp0 = Segs!KstackTop(cpu)
    BY <2>1 DEF StackOK, After, Ready
  <2> QED BY <2>1, <2>2, StackMove DEF After, Ready
<1> QED
  BY <1>1, <1>2, <1>3, <1>4, <1>5, <1>6, <1>7, <1>8, <1>9, <1>10, <1>11 DEF Segs!Next

\* As long as the boot processor is CPU 0, a CPU that traps from user mode, halts
\* or starts does it on a stack that is no other CPU's, however many are on their
\* way into the kernel, and the TSS that it has loaded is its own.
THEOREM StacksStayApart == ASSUME Segs!DescriptorsAssumption PROVE Segs!Spec => []Segs!StacksAreOwn
<1>1. Segs!Init => StackOK
  BY StackInitially
<1>2. IInv /\ StackOK /\ [Segs!Next]_(Segs!vars) => StackOK'
  BY StackKeeps
<1>3. IInv /\ StackOK => Segs!StacksAreOwn
  BY StacksThen
<1> QED BY <1>1, <1>2, <1>3, Inductive, PTL DEF Segs!Spec
-----------------------------------------------------------------------------
(* Entries of cpus[]: MpConfig *)

\* Processors among the first k - 1 entries.
Count(m, k) == Cardinality(Mp!ProcsBefore(m.entries, k))
End(m) == Len(m.entries) + 1

NumberingTypeOK ==
  /\ config \in Tables /\ stage \in {"mp_init", "lapic_init", "boot_aps", "wait", "running"}
  /\ entry \in 0 .. End(config) /\ lapicaddr \in {0, 1}
  /\ ncpu \in 0 .. MaxCpus /\ bootcpu \in 0 .. MaxCpus - 1 /\ aps \in Nat
  /\ idOf \in [0 .. MaxCpus - 1 -> 0 .. MaxCpus - 1]
  /\ started \in [0 .. MaxCpus - 1 -> {"UNUSED", "STARTED"}]
  /\ apic \in [Mp!Procs -> {"reset", "init", "running"}] /\ lint0 \subseteq Mp!Procs

\* How far mp_init is with the table: cpus[] has the processors that it saw, as
\* far as there is room, the boot processor at the index that is its APIC id.
ScanOK ==
  /\ entry = 0 => ncpu = 0 /\ bootcpu = 0 /\ lapicaddr = 0 /\ ~ismp
  /\ ismp => /\ entry > 0 /\ lapicaddr = 1
             /\ ncpu = IF Count(config, entry) < MaxCpus THEN Count(config, entry) ELSE MaxCpus
             /\ bootcpu = IF config.bsp < Count(config, entry) THEN config.bsp ELSE 0
  /\ ~ismp /\ entry > 0 => entry = End(config)
  /\ \A x \in 0 .. MaxCpus - 1 : x < ncpu \/ x = 0 => idOf[x] = x
  /\ stage = "mp_init" => \A x \in 0 .. MaxCpus - 1 : started[x] = "UNUSED"
  /\ stage # "mp_init" =>
       IF ismp THEN entry = End(config) /\ started[config.bsp] = "STARTED" ELSE ncpu <= 1 /\ lapicaddr = 0

\* boot_aps is at CPU c: those before it run, the others are in reset.
BootOK ==
  /\ apic[config.bsp] = "running" /\ config.bsp \in lint0
  /\ \A id \in Mp!Procs \ {config.bsp} :
       /\ apic[id] = "init" => ismp /\ stage = "wait" /\ id = aps
       /\ apic[id] = "running" =>
            /\ ismp /\ (id < aps \/ (stage = "wait" /\ id = aps))
            /\ started[id] = "STARTED" /\ id \notin lint0
       /\ ismp /\ id < aps => apic[id] = "running"
  /\ \A x \in 0 .. MaxCpus - 1 : started[x] = "STARTED" => x = bootcpu \/ (x \in Mp!Procs /\ apic[x] = "running")
  /\ aps <= ncpu /\ (stage \in {"mp_init", "lapic_init"} => aps = 0) /\ (stage = "running" => aps = ncpu)
  /\ stage = "wait" => ismp /\ aps < ncpu /\ aps # config.bsp

NumberingInv == NumberingTypeOK /\ ScanOK /\ BootOK
-----------------------------------------------------------------------------
(* Counting the processors of a table *)

LEMMA TablesAreSound ==
  ASSUME Mp!MpConfigAssumption, config \in Tables
  PROVE  /\ MaxCpus \in Nat /\ MaxCpus >= 1 /\ End(config) \in Nat /\ End(config) >= 1
         /\ DOMAIN config.entries = 1 .. End(config) - 1
         /\ \A k \in 1 .. End(config) - 1 :
              /\ config.entries[k].type \in Nat /\ config.entries[k].apicid \in Nat
              /\ config.entries[k].type = Mp!MPPROC => config.entries[k].apicid = Count(config, k)
         /\ config.bsp \in 0 .. MaxCpus - 1 /\ config.bsp \in Mp!Procs
         /\ \E k \in 1 .. End(config) - 1 : config.entries[k].type = Mp!MPPROC /\ Count(config, k) = config.bsp
         /\ Mp!Procs \subseteq Nat
<1>1. config.entries \in Seq([type : Nat, apicid : Nat])
  BY DEF Mp!MpConfigAssumption
<1>2. End(config) \in Nat /\ End(config) >= 1 /\ DOMAIN config.entries = 1 .. End(config) - 1
  BY <1>1 DEF End
<1>3. \A k \in 1 .. End(config) - 1 : config.entries[k] \in [type : Nat, apicid : Nat]
  <2>1. \A k \in 1 .. Len(config.entries) : config.entries[k] \in [type : Nat, apicid : Nat]
    BY <1>1, ElementOfSeq
  <2> QED BY <1>1, <2>1, LenProperties DEF End
<1>4. \A k \in 1 .. End(config) - 1 :
       config.entries[k].type = Mp!MPPROC => config.entries[k].apicid = Count(config, k)
  <2>1. \A k \in DOMAIN config.entries :
          config.entries[k].type = Mp!MPPROC =>
            config.entries[k].apicid = Cardinality(Mp!ProcsBefore(config.entries, k))
    BY Zenon DEF Mp!MpConfigAssumption, Cardinality, Mp!Cardinality
  <2> QED BY <1>2, <2>1 DEF Count
<1>5. PICK k \in 1 .. End(config) - 1 : config.entries[k] = [type |-> Mp!MPPROC, apicid |-> config.bsp]
  BY <1>2 DEF Mp!MpConfigAssumption
<1>6. config.entries[k].type = Mp!MPPROC /\ config.entries[k].apicid = config.bsp /\ config.bsp \in Nat
  BY <1>3, <1>5
<1>7. MaxCpus \in Nat /\ MaxCpus >= 1 /\ config.bsp < MaxCpus
  <2>1. MaxCpus \in Nat \ {0} /\ config.bsp < MaxCpus
    BY Zenon DEF Mp!MpConfigAssumption, Cardinality, Mp!Cardinality
  <2> QED BY <2>1
<1>8. config.bsp \in Mp!Procs /\ Mp!Procs \subseteq Nat
  BY <1>2, <1>3, <1>6 DEF Mp!Procs
<1> QED BY <1>2, <1>3, <1>4, <1>6, <1>7, <1>8

LEMMA Counting ==
  ASSUME Mp!MpConfigAssumption, config \in Tables
  PROVE  /\ \A k \in 1 .. End(config) : Count(config, k) \in Nat
         /\ Count(config, 1) = 0
         /\ \A k \in 1 .. End(config) - 1 :
              Count(config, k + 1) =
                IF config.entries[k].type = Mp!MPPROC THEN Count(config, k) + 1 ELSE Count(config, k)
         /\ config.bsp < Count(config, End(config))
<1>. End(config) \in Nat /\ End(config) >= 1
  BY TablesAreSound
<1> DEFINE B(k) == Mp!ProcsBefore(config.entries, k)
<1>1. \A k \in 1 .. End(config) : IsFiniteSet(B(k)) /\ Count(config, k) \in Nat
  <2> SUFFICES ASSUME NEW k \in 1 .. End(config) PROVE IsFiniteSet(B(k)) /\ Count(config, k) \in Nat
    OBVIOUS
  <2>1. IsFiniteSet(1 .. k - 1) /\ B(k) \subseteq 1 .. k - 1
    <3>1. k - 1 \in Int
      OBVIOUS
    <3>2. IsFiniteSet(1 .. k - 1)
      BY <3>1, FS_Interval
    <3> QED BY <3>2 DEF Mp!ProcsBefore
  <2>2. IsFiniteSet(B(k))
    BY <2>1, FS_Subset
  <2> QED BY <2>2, FS_CardinalityType DEF Count
<1>2. Count(config, 1) = 0
  <2>1. B(1) = {}
    BY DEF Mp!ProcsBefore
  <2> QED BY <2>1, FS_EmptySet DEF Count
<1>3. ASSUME NEW k \in 1 .. End(config) - 1
      PROVE  Count(config, k + 1) =
               IF config.entries[k].type = Mp!MPPROC THEN Count(config, k) + 1 ELSE Count(config, k)
  <2>1. B(k + 1) = IF config.entries[k].type = Mp!MPPROC THEN B(k) \cup {k} ELSE B(k)
    BY DEF Mp!ProcsBefore
  <2>2. k \notin B(k) /\ IsFiniteSet(B(k))
    <3>1. k \in 1 .. End(config)
      OBVIOUS
    <3> QED BY <1>1, <3>1 DEF Mp!ProcsBefore
  <2> HIDE DEF B
  <2>3. Cardinality(B(k) \cup {k}) = Cardinality(B(k)) + 1
    BY <2>2, FS_AddElement
  <2> QED BY <2>1, <2>3 DEF Count, B
<1>4. config.bsp < Count(config, End(config))
  <2>1. PICK k \in 1 .. End(config) - 1 : config.entries[k].type = Mp!MPPROC /\ Count(config, k) = config.bsp
    BY TablesAreSound
  <2>2. Count(config, k + 1) = Count(config, k) + 1
    BY <1>3, <2>1
  <2>3. B(k + 1) \subseteq B(End(config)) /\ IsFiniteSet(B(End(config)))
    <3>1. End(config) \in 1 .. End(config)
      OBVIOUS
    <3>2. k <= End(config) - 1
      OBVIOUS
    <3> QED BY <1>1, <3>1, <3>2 DEF Mp!ProcsBefore
  <2> HIDE DEF B
  <2>4. Cardinality(B(k + 1)) <= Cardinality(B(End(config)))
    BY <2>3, FS_Subset
  <2>5. Count(config, k) \in Nat /\ Count(config, End(config)) \in Nat
    BY <1>1
  <2> QED BY <2>1, <2>2, <2>4, <2>5 DEF Count, B
<1> QED BY <1>1, <1>2, <1>3, <1>4

-----------------------------------------------------------------------------
(* The invariant *)

LEMMA NumberingInitially == ASSUME Mp!MpConfigAssumption, Mp!Init PROVE NumberingInv
<1>. /\ MaxCpus \in Nat /\ MaxCpus >= 1 /\ End(config) \in Nat /\ End(config) >= 1 /\ Mp!Procs \subseteq Nat
     /\ config.bsp \in 0 .. MaxCpus - 1 /\ config.bsp \in Mp!Procs
  BY TablesAreSound DEF Mp!Init
<1> USE DEF Mp!Init
<1>1. NumberingTypeOK
  BY DEF NumberingTypeOK
<1>2. ScanOK
  BY DEF ScanOK
<1>3. BootOK
  BY DEF BootOK
<1> QED BY <1>1, <1>2, <1>3 DEF NumberingInv

\* The machine stays, and with it what is said of its table.
LEMMA SameMachine ==
  ASSUME UNCHANGED config
  PROVE  Mp!Procs' = Mp!Procs
BY DEF Mp!Procs

LEMMA BeginKeeps == ASSUME Mp!MpConfigAssumption, NumberingInv, Mp!Begin PROVE NumberingInv'
<1>. /\ MaxCpus \in Nat /\ MaxCpus >= 1 /\ End(config) \in Nat /\ End(config) >= 1 /\ Mp!Procs \subseteq Nat
     /\ config.bsp \in 0 .. MaxCpus - 1 /\ config.bsp \in Mp!Procs
  BY TablesAreSound DEF NumberingInv, NumberingTypeOK
<1>. Count(config, 1) = 0
  BY Counting DEF NumberingInv, NumberingTypeOK
<1>0. Mp!Procs' = Mp!Procs
  BY SameMachine DEF Mp!Begin
<1> USE <1>0 DEF NumberingInv, Mp!Begin
<1>1. NumberingTypeOK' /\ ScanOK'
  BY SameMachine DEF NumberingTypeOK, ScanOK
<1>2. BootOK'
  BY SameMachine DEF NumberingTypeOK, ScanOK, BootOK
<1> QED BY <1>1, <1>2

LEMMA EntryDoes ==
  ASSUME Mp!Entry
  PROVE  \/ /\ config.entries[entry].type = Mp!MPPROC
            /\ bootcpu' = (IF config.entries[entry].apicid = config.bsp THEN ncpu ELSE bootcpu)
            /\ entry' = entry + 1 /\ ismp' = ismp
            /\ IF ncpu < MaxCpus
               THEN /\ idOf' = [x \in DOMAIN idOf \cup {ncpu} |-> IF x = ncpu THEN ncpu ELSE idOf[x]]
                    /\ ncpu' = ncpu + 1
               ELSE idOf' = idOf /\ ncpu' = ncpu
         \/ /\ config.entries[entry].type # Mp!MPPROC
            /\ UNCHANGED <<bootcpu, idOf, ncpu>>
            /\ (entry' = entry + 1 /\ ismp' = ismp) \/ (entry' = End(config) /\ ismp' = FALSE)
<1> DEFINE e == config.entries[entry]
<1>0. Mp!MPPROC \notin Mp!Skipped
  BY DEF Mp!MPPROC, Mp!Skipped
<1>1. CASE e.type = Mp!MPPROC
  <2>1. e.type \notin Mp!Skipped
    BY <1>0, <1>1
  <2> QED BY <1>1, <2>1, Zenon DEF Mp!Entry, Mp!BootIndex, Mp!Room
<1>2. CASE e.type # Mp!MPPROC /\ e.type \in Mp!Skipped
  BY <1>2, Zenon DEF Mp!Entry
<1>3. CASE e.type # Mp!MPPROC /\ e.type \notin Mp!Skipped
  BY <1>3, Zenon DEF Mp!Entry, End
<1> QED BY <1>1, <1>2, <1>3

LEMMA EntryKeeps == ASSUME Mp!MpConfigAssumption, NumberingInv, Mp!Entry PROVE NumberingInv'
<1> DEFINE e == config.entries[entry]
<1>1. /\ stage = "mp_init" /\ entry \in 1 .. End(config) - 1
      /\ UNCHANGED <<config, stage, lapicaddr, started, apic, lint0, aps>>
  BY DEF Mp!Entry, End
<1>. /\ MaxCpus \in Nat /\ MaxCpus >= 1 /\ End(config) \in Nat /\ End(config) >= 1 /\ Mp!Procs \subseteq Nat
     /\ config.bsp \in 0 .. MaxCpus - 1 /\ config.bsp \in Mp!Procs
  BY TablesAreSound DEF NumberingInv, NumberingTypeOK
<1>0. Mp!Procs' = Mp!Procs
  BY SameMachine DEF Mp!Entry
<1> USE <1>0 DEF NumberingInv
<1>4. ASSUME ncpu' \in 0 .. MaxCpus PROVE BootOK'
  <2>1. \A x \in 0 .. MaxCpus - 1 : started'[x] = "UNUSED"
    BY <1>1 DEF ScanOK
  <2>2. \A id \in Mp!Procs \ {config.bsp} : apic[id] # "running" /\ apic[id] # "init"
    BY <1>1 DEF BootOK, NumberingTypeOK
  <2>3. aps = 0 /\ aps' = 0 /\ stage' = "mp_init"
    BY <1>1 DEF BootOK
  <2>4. apic'[config'.bsp] = "running" /\ config'.bsp \in lint0'
    BY <1>1 DEF BootOK
  <2>5. \A id \in Mp!Procs' \ {config'.bsp} : apic'[id] # "running" /\ apic'[id] # "init" /\ ~(id < aps')
    BY <1>1, <2>2, <2>3
  <2>6. \A x \in 0 .. MaxCpus - 1 : started'[x] # "STARTED"
    BY <2>1
  <2>7. aps' <= ncpu'
    BY <1>4, <2>3
  <2>8. /\ \A id \in Mp!Procs' \ {config'.bsp} :
            /\ apic'[id] = "init" => ismp' /\ stage' = "wait" /\ id = aps'
            /\ apic'[id] = "running" =>
                 /\ ismp' /\ (id < aps' \/ (stage' = "wait" /\ id = aps'))
                 /\ started'[id] = "STARTED" /\ id \notin lint0'
            /\ ismp' /\ id < aps' => apic'[id] = "running"
    BY <2>5, Zenon
  <2> QED BY <2>3, <2>4, <2>6, <2>7, <2>8 DEF BootOK
<1>2. CASE e.type = Mp!MPPROC
  <2>1. /\ bootcpu' = (IF e.apicid = config.bsp THEN ncpu ELSE bootcpu) /\ entry' = entry + 1 /\ ismp' = ismp
        /\ IF ncpu < MaxCpus
           THEN /\ idOf' = [x \in DOMAIN idOf \cup {ncpu} |-> IF x = ncpu THEN ncpu ELSE idOf[x]]
                /\ ncpu' = ncpu + 1
           ELSE idOf' = idOf /\ ncpu' = ncpu
    BY <1>2, EntryDoes, Zenon
  <2>2. /\ ismp /\ e.apicid = Count(config, entry)
        /\ Count(config, entry + 1) = Count(config, entry) + 1 /\ Count(config, entry) \in Nat
    <3>1. ismp
      BY <1>1 DEF ScanOK, NumberingTypeOK
    <3>2. e.apicid = Count(config, entry)
      BY <1>1, <1>2, TablesAreSound DEF NumberingTypeOK
    <3>3. Count(config, entry + 1) = Count(config, entry) + 1
      BY <1>1, <1>2, Counting DEF NumberingTypeOK
    <3>4. Count(config, entry) \in Nat
      BY <1>1, Counting DEF NumberingTypeOK
    <3> QED BY <3>1, <3>2, <3>3, <3>4
  <2>3. ncpu < MaxCpus => DOMAIN idOf \cup {ncpu} = 0 .. MaxCpus - 1
    <3>1. DOMAIN idOf = 0 .. MaxCpus - 1 /\ ncpu \in 0 .. MaxCpus
      BY DEF NumberingTypeOK
    <3> QED BY <3>1
  <2>4. ncpu' \in 0 .. MaxCpus /\ bootcpu' \in 0 .. MaxCpus - 1
    <3>1. ncpu \in 0 .. MaxCpus /\ bootcpu \in 0 .. MaxCpus - 1
      BY DEF NumberingTypeOK
    <3>2. ncpu = IF Count(config, entry) < MaxCpus THEN Count(config, entry) ELSE MaxCpus
      BY <2>2 DEF ScanOK
    <3>3. e.apicid = config.bsp => ncpu \in 0 .. MaxCpus - 1
      BY <2>2, <3>2
    <3> QED BY <2>1, <3>1, <3>3
  <2>5. /\ idOf' \in [0 .. MaxCpus - 1 -> 0 .. MaxCpus - 1]
        /\ \A x \in 0 .. MaxCpus - 1 : x < ncpu' \/ x = 0 => idOf'[x] = x
    <3>1. CASE ncpu < MaxCpus
      <4>1. idOf' = [x \in 0 .. MaxCpus - 1 |-> IF x = ncpu THEN ncpu ELSE idOf[x]] /\ ncpu' = ncpu + 1
        BY <2>1, <2>3, <3>1
      <4>2. ncpu \in 0 .. MaxCpus - 1 /\ idOf \in [0 .. MaxCpus - 1 -> 0 .. MaxCpus - 1]
        BY <3>1 DEF NumberingTypeOK
      <4>3. \A x \in 0 .. MaxCpus - 1 : x < ncpu \/ x = 0 => idOf[x] = x
        BY DEF ScanOK
      <4> QED BY <4>1, <4>2, <4>3
    <3>2. CASE ~(ncpu < MaxCpus)
      BY <2>1, <3>2 DEF NumberingTypeOK, ScanOK
    <3> QED BY <3>1, <3>2
  <2>6. NumberingTypeOK'
    <3>1. entry' \in 0 .. End(config)
      BY <1>1, <2>1
    <3> QED BY <1>1, <2>4, <2>5, <3>1 DEF NumberingTypeOK
  <2>7. ScanOK'
    <3>1. /\ entry' > 0 /\ entry' = entry + 1 /\ ismp' /\ lapicaddr' = 1
          /\ Count(config, entry') = Count(config, entry) + 1
      BY <1>1, <2>1, <2>2 DEF ScanOK
    <3>2. ncpu = (IF Count(config, entry) < MaxCpus THEN Count(config, entry) ELSE MaxCpus)
          /\ bootcpu = (IF config.bsp < Count(config, entry) THEN config.bsp ELSE 0)
      BY <2>2 DEF ScanOK
    <3>3. ncpu' = IF Count(config, entry') < MaxCpus THEN Count(config, entry') ELSE MaxCpus
      BY <2>1, <2>2, <3>1, <3>2
    <3>4. bootcpu' = IF config.bsp < Count(config, entry') THEN config.bsp ELSE 0
      BY <2>1, <2>2, <3>1, <3>2
    <3> QED BY <1>1, <2>5, <3>1, <3>3, <3>4 DEF ScanOK
  <2>8. BootOK'
    BY <1>1, <1>4, <2>1, <2>4
  <2> QED BY <2>6, <2>7, <2>8
<1>3. CASE e.type # Mp!MPPROC
  <2>1. /\ UNCHANGED <<bootcpu, idOf, ncpu>>
        /\ \/ entry' = entry + 1 /\ ismp' = ismp
           \/ entry' = End(config) /\ ismp' = FALSE
    BY <1>3, EntryDoes, Zenon
  <2>2. ismp /\ Count(config, entry + 1) = Count(config, entry)
    <3>1. ismp
      BY <1>1 DEF ScanOK, NumberingTypeOK
    <3>2. Count(config, entry + 1) = Count(config, entry)
      BY <1>1, <1>3, Counting DEF NumberingTypeOK
    <3> QED BY <3>1, <3>2
  <2>3. NumberingTypeOK'
    <3>1. entry' \in 0 .. End(config)
      BY <1>1, <2>1
    <3> QED BY <1>1, <2>1, <3>1 DEF NumberingTypeOK
  <2>4. ScanOK'
    <3>1. CASE entry' = entry + 1 /\ ismp' = ismp
      BY <1>1, <2>1, <2>2, <3>1 DEF ScanOK
    <3>2. CASE entry' = End(config) /\ ismp' = FALSE
      <4>1. ~ismp' /\ entry' > 0
        BY <3>2
      <4> QED BY <1>1, <2>1, <3>2, <4>1 DEF ScanOK
    <3> QED BY <2>1, <3>1, <3>2
  <2>5. BootOK'
    BY <1>1, <1>4, <2>1, <2>3 DEF NumberingTypeOK
  <2> QED BY <2>3, <2>4, <2>5
<1> QED BY <1>2, <1>3

LEMMA EndOfTableKeeps == ASSUME Mp!MpConfigAssumption, NumberingInv, Mp!EndOfTable PROVE NumberingInv'
<1>. /\ MaxCpus \in Nat /\ MaxCpus >= 1 /\ End(config) \in Nat /\ End(config) >= 1 /\ Mp!Procs \subseteq Nat
     /\ config.bsp \in 0 .. MaxCpus - 1 /\ config.bsp \in Mp!Procs
  BY TablesAreSound DEF NumberingInv, NumberingTypeOK
<1>0. Mp!Procs' = Mp!Procs
  BY SameMachine DEF Mp!EndOfTable
<1> USE <1>0 DEF NumberingInv
<1>1. /\ stage = "mp_init" /\ entry = End(config)
      /\ UNCHANGED <<config, entry, ismp, bootcpu, idOf, apic, lint0, aps>>
      /\ started' = [started EXCEPT ![bootcpu] = "STARTED"] /\ stage' = "lapic_init"
      /\ IF ismp THEN UNCHANGED <<ncpu, lapicaddr>> ELSE ncpu' = 1 /\ lapicaddr' = 0
  BY DEF Mp!EndOfTable, Mp!FallBack, End
<1>2. NumberingTypeOK'
  <2>1. started' \in [0 .. MaxCpus - 1 -> {"UNUSED", "STARTED"}]
    BY <1>1 DEF NumberingTypeOK
  <2>2. ncpu' \in 0 .. MaxCpus /\ lapicaddr' \in {0, 1}
    <3>1. CASE ismp
      BY <1>1, <3>1 DEF NumberingTypeOK
    <3>2. CASE ~ismp
      BY <1>1, <3>2 DEF NumberingTypeOK
    <3> QED BY <3>1, <3>2
  <2> QED BY <1>1, <2>1, <2>2 DEF NumberingTypeOK
<1>3. ismp => bootcpu = config.bsp
  BY <1>1, Counting DEF ScanOK, NumberingTypeOK
<1>4. ScanOK'
  <2>1. started'[bootcpu] = "STARTED"
    BY <1>1 DEF NumberingTypeOK
  <2>2. CASE ismp
    BY <1>1, <1>3, <2>1, <2>2 DEF ScanOK
  <2>3. CASE ~ismp
    <3>1. ncpu' = 1 /\ lapicaddr' = 0
      BY <1>1, <2>3
    <3>2. \A x \in 0 .. MaxCpus - 1 : x < 1 \/ x = 0 => idOf[x] = x
      BY DEF ScanOK
    <3> QED BY <1>1, <2>3, <3>1, <3>2 DEF ScanOK
  <2> QED BY <2>2, <2>3
<1>5. BootOK'
  <2>1. \A x \in 0 .. MaxCpus - 1 : started'[x] = "STARTED" => x = bootcpu \/ started[x] = "STARTED"
    BY <1>1 DEF NumberingTypeOK
  <2>2. aps = 0 /\ ncpu' >= 0
    BY <1>1 DEF BootOK, NumberingTypeOK
  <2>3. \A id \in Mp!Procs \ {config.bsp} : apic[id] # "running" /\ apic[id] # "init"
    <3>1. \A id \in Mp!Procs : ~(id < 0)
      OBVIOUS
    <3> QED BY <1>1, <2>2, <3>1 DEF BootOK
  <2> QED BY <1>1, <2>1, <2>2, <2>3 DEF BootOK, NumberingTypeOK
<1> QED BY <1>2, <1>4, <1>5

\* Behind mp_init the boot processor is at the index that cpunum answers on it,
\* and no other CPU starts unless the table was good.
LEMMA BehindScan ==
  ASSUME Mp!MpConfigAssumption, NumberingInv, stage # "mp_init"
  PROVE  /\ ismp => bootcpu = config.bsp /\ \A id : Mp!Cpunum(id) = id
         /\ ~ismp => lapicaddr = 0 /\ \A id : Mp!Cpunum(id) = 0
BY TablesAreSound, Counting DEF NumberingInv, ScanOK, NumberingTypeOK, Mp!Cpunum

LEMMA BspInitKeeps == ASSUME Mp!MpConfigAssumption, NumberingInv, Mp!BspInit PROVE NumberingInv'
<1>. /\ MaxCpus \in Nat /\ MaxCpus >= 1 /\ End(config) \in Nat /\ End(config) >= 1 /\ Mp!Procs \subseteq Nat
     /\ config.bsp \in 0 .. MaxCpus - 1 /\ config.bsp \in Mp!Procs
  BY TablesAreSound DEF NumberingInv, NumberingTypeOK
<1>0. Mp!Procs' = Mp!Procs
  BY SameMachine DEF Mp!BspInit
<1> USE <1>0 DEF NumberingInv
<1>1. /\ stage = "lapic_init" /\ stage' = "boot_aps" /\ lint0' = lint0
      /\ UNCHANGED <<config, entry, ismp, ncpu, bootcpu, lapicaddr, idOf, started, apic, aps>>
  BY BehindScan DEF Mp!BspInit, Mp!LapicInit
<1>2. NumberingTypeOK' /\ ScanOK'
  BY <1>1 DEF NumberingTypeOK, ScanOK
<1>3. BootOK'
  BY <1>1 DEF BootOK, NumberingTypeOK
<1> QED BY <1>2, <1>3

LEMMA StartapKeeps == ASSUME Mp!MpConfigAssumption, NumberingInv, Mp!Startap PROVE NumberingInv'
<1>. /\ MaxCpus \in Nat /\ MaxCpus >= 1 /\ End(config) \in Nat /\ End(config) >= 1 /\ Mp!Procs \subseteq Nat
     /\ config.bsp \in 0 .. MaxCpus - 1 /\ config.bsp \in Mp!Procs
  BY TablesAreSound DEF NumberingInv, NumberingTypeOK
<1>0. Mp!Procs' = Mp!Procs
  BY SameMachine DEF Mp!Startap
<1> USE <1>0 DEF NumberingInv
<1>1. /\ stage = "boot_aps" /\ aps < ncpu
      /\ UNCHANGED <<config, entry, ismp, ncpu, bootcpu, lapicaddr, idOf, started, lint0>>
  BY DEF Mp!Startap
<1>2. CASE aps = Mp!Cpunum(config.bsp)
  <2>1. aps' = aps + 1 /\ UNCHANGED <<stage, apic>>
    BY <1>2 DEF Mp!Startap
  <2>2. NumberingTypeOK' /\ ScanOK'
    <3>1. aps' \in Nat
      BY <2>1 DEF NumberingTypeOK
    <3> QED BY <1>1, <2>1, <3>1 DEF NumberingTypeOK, ScanOK
  <2>3. ismp => aps = config.bsp
    BY <1>1, <1>2, BehindScan
  <2>4. BootOK'
    BY <1>1, <2>1, <2>3 DEF BootOK, NumberingTypeOK, ScanOK
  <2> QED BY <2>2, <2>4
<1>3. CASE aps # Mp!Cpunum(config.bsp)
  <2>1. ismp /\ aps # config.bsp /\ aps \in 0 .. MaxCpus - 1 /\ idOf[aps] = aps
    <3>1. aps \in 0 .. MaxCpus - 1 /\ idOf[aps] = aps
      BY <1>1 DEF NumberingTypeOK, ScanOK
    <3>2. ismp
      <4> SUFFICES ASSUME ~ismp PROVE FALSE
        OBVIOUS
      <4>1. Mp!Cpunum(config.bsp) = 0 /\ ncpu <= 1
        BY <1>1, BehindScan DEF ScanOK
      <4> QED BY <1>1, <1>3, <3>1, <4>1 DEF NumberingTypeOK
    <3>3. Mp!Cpunum(config.bsp) = config.bsp
      BY <1>1, <3>2, BehindScan
    <3> QED BY <1>3, <3>1, <3>2, <3>3
  <2>2. stage' = "wait" /\ UNCHANGED aps
        /\ apic' = IF aps \in Mp!Procs THEN [apic EXCEPT ![aps] = "init"] ELSE apic
    BY <1>3, <2>1 DEF Mp!Startap, NumberingTypeOK
  <2>3. NumberingTypeOK' /\ ScanOK'
    BY <1>1, <2>2 DEF NumberingTypeOK, ScanOK
  <2>4. \A id \in Mp!Procs : apic'[id] = IF id = aps THEN "init" ELSE apic[id]
    BY <2>2 DEF NumberingTypeOK
  <2>5. aps \in Mp!Procs => apic[aps] # "running"
    BY <1>1, <2>1 DEF BootOK, NumberingTypeOK
  <2>6. BootOK'
    BY <1>1, <2>1, <2>2, <2>4, <2>5 DEF BootOK, NumberingTypeOK
  <2> QED BY <2>3, <2>6
<1> QED BY <1>2, <1>3

LEMMA ApKeeps ==
  ASSUME Mp!MpConfigAssumption, NumberingInv, NEW id \in DOMAIN apic, Mp!MpMain(id)
  PROVE  NumberingInv'
<1>. /\ MaxCpus \in Nat /\ MaxCpus >= 1 /\ End(config) \in Nat /\ End(config) >= 1 /\ Mp!Procs \subseteq Nat
     /\ config.bsp \in 0 .. MaxCpus - 1 /\ config.bsp \in Mp!Procs
  BY TablesAreSound DEF NumberingInv, NumberingTypeOK
<1>0. Mp!Procs' = Mp!Procs
  BY SameMachine DEF Mp!MpMain
<1> USE <1>0 DEF NumberingInv
<1>1. /\ apic[id] = "init" /\ apic' = [apic EXCEPT ![id] = "running"]
      /\ UNCHANGED <<config, stage, entry, ismp, ncpu, bootcpu, lapicaddr, idOf, aps>>
  BY DEF Mp!MpMain
<1>2. id \in Mp!Procs /\ id # config.bsp /\ ismp /\ stage = "wait" /\ id = aps /\ id \in 0 .. MaxCpus - 1
  BY <1>1 DEF BootOK, NumberingTypeOK
<1>3. lint0' = lint0 \ {id} /\ started' = [started EXCEPT ![id] = "STARTED"]
  <2>1. Mp!Cpunum(id) = id /\ bootcpu = config.bsp /\ lapicaddr = 1
    BY <1>2, BehindScan DEF ScanOK
  <2> QED BY <1>2, <2>1 DEF Mp!MpMain, Mp!LapicInit
<1>4. /\ \A x \in Mp!Procs : apic'[x] = IF x = id THEN "running" ELSE apic[x]
      /\ \A x \in 0 .. MaxCpus - 1 : started'[x] = IF x = id THEN "STARTED" ELSE started[x]
  BY <1>1, <1>2, <1>3 DEF NumberingTypeOK
<1>5. NumberingTypeOK'
  BY <1>1, <1>2, <1>3 DEF NumberingTypeOK
<1>6. ScanOK'
  BY <1>1, <1>2, <1>3, <1>4 DEF ScanOK, NumberingTypeOK
<1>7. BootOK'
  <2>1. \A x \in Mp!Procs \ {config.bsp} : apic[x] = "running" => x \in 0 .. MaxCpus - 1
    BY DEF BootOK, NumberingTypeOK
  <2>2. /\ \A x \in Mp!Procs \ {config.bsp} :
             /\ apic'[x] # "init" /\ (apic'[x] = "running" => started'[x] = "STARTED" /\ x \notin lint0')
             /\ apic'[x] = "running" => x < aps \/ x = aps
             /\ x < aps => apic'[x] = "running"
        /\ \A x \in 0 .. MaxCpus - 1 : started'[x] = "STARTED" =>
             x = bootcpu \/ (x \in Mp!Procs /\ apic'[x] = "running")
        /\ apic'[config.bsp] = "running" /\ config.bsp \in lint0'
    BY <1>1, <1>2, <1>3, <1>4, <2>1 DEF BootOK
  <2> QED BY <1>1, <1>2, <2>2 DEF BootOK
<1> QED BY <1>5, <1>6, <1>7

LEMMA StartedKeeps == ASSUME Mp!MpConfigAssumption, NumberingInv, Mp!Started PROVE NumberingInv'
<1>. /\ MaxCpus \in Nat /\ MaxCpus >= 1 /\ End(config) \in Nat /\ End(config) >= 1 /\ Mp!Procs \subseteq Nat
     /\ config.bsp \in 0 .. MaxCpus - 1 /\ config.bsp \in Mp!Procs
  BY TablesAreSound DEF NumberingInv, NumberingTypeOK
<1>0. Mp!Procs' = Mp!Procs
  BY SameMachine DEF Mp!Started
<1> USE <1>0 DEF NumberingInv
<1>1. /\ stage = "wait" /\ started[aps] = "STARTED" /\ stage' = "boot_aps" /\ aps' = aps + 1
      /\ UNCHANGED <<config, entry, ismp, ncpu, bootcpu, lapicaddr, idOf, started, apic, lint0>>
  BY DEF Mp!Started
<1>2. ismp /\ aps < ncpu /\ aps \in 0 .. MaxCpus - 1 /\ aps # bootcpu
  <2>1. ismp /\ aps < ncpu /\ aps # config.bsp
    BY <1>1 DEF BootOK
  <2>2. bootcpu = config.bsp
    BY <1>1, <2>1, BehindScan
  <2> QED BY <2>1, <2>2 DEF NumberingTypeOK
<1>3. aps \in Mp!Procs /\ apic[aps] = "running"
  BY <1>1, <1>2 DEF BootOK
<1>4. NumberingTypeOK' /\ ScanOK'
  <2>1. aps' \in Nat
    BY <1>1 DEF NumberingTypeOK
  <2> QED BY <1>1, <2>1 DEF NumberingTypeOK, ScanOK
<1>5. BootOK'
  <2>1. aps' <= ncpu
    BY <1>1, <1>2 DEF NumberingTypeOK
  <2>2. \A id \in Mp!Procs : (id < aps' <=> id < aps \/ id = aps) /\ (apic[id] = "init" => id # aps)
    <3>1. \A id \in Mp!Procs : id \in Nat
      OBVIOUS
    <3> QED BY <1>1, <1>2, <1>3, <3>1
  <2> QED BY <1>1, <1>2, <1>3, <2>1, <2>2 DEF BootOK
<1> QED BY <1>4, <1>5

LEMMA BootDoneKeeps == ASSUME Mp!MpConfigAssumption, NumberingInv, Mp!BootDone PROVE NumberingInv'
<1>. /\ MaxCpus \in Nat /\ MaxCpus >= 1 /\ End(config) \in Nat /\ End(config) >= 1 /\ Mp!Procs \subseteq Nat
     /\ config.bsp \in 0 .. MaxCpus - 1 /\ config.bsp \in Mp!Procs
  BY TablesAreSound DEF NumberingInv, NumberingTypeOK
<1>0. Mp!Procs' = Mp!Procs
  BY SameMachine DEF Mp!BootDone
<1> USE <1>0 DEF NumberingInv
<1>1. /\ stage = "boot_aps" /\ aps >= ncpu /\ stage' = "running"
      /\ UNCHANGED <<config, entry, ismp, ncpu, bootcpu, lapicaddr, idOf, started, apic, lint0, aps>>
  BY DEF Mp!BootDone
<1>2. NumberingTypeOK' /\ ScanOK'
  BY <1>1 DEF NumberingTypeOK, ScanOK
<1>3. BootOK'
  BY <1>1 DEF BootOK, NumberingTypeOK
<1> QED BY <1>2, <1>3

LEMMA NumberingKeeps == ASSUME Mp!MpConfigAssumption, NumberingInv, [Mp!Next]_(Mp!vars) PROVE NumberingInv'
<1>1. CASE UNCHANGED Mp!vars
  BY <1>1, SameMachine DEF Mp!vars, NumberingInv, NumberingTypeOK, ScanOK, BootOK
<1>2. CASE Mp!Next
  BY <1>2, BeginKeeps, EntryKeeps, EndOfTableKeeps, BspInitKeeps, StartapKeeps, StartedKeeps,
     BootDoneKeeps, ApKeeps
  DEF Mp!Next
<1> QED BY <1>1, <1>2

LEMMA Consequences ==
  ASSUME Mp!MpConfigAssumption, NumberingInv
  PROVE  Mp!EntriesAreOwn /\ Mp!AloneWithoutTable /\ Mp!OneCpuGetsDevices
<1>. /\ MaxCpus \in Nat /\ MaxCpus >= 1 /\ End(config) \in Nat /\ End(config) >= 1 /\ Mp!Procs \subseteq Nat
     /\ config.bsp \in 0 .. MaxCpus - 1 /\ config.bsp \in Mp!Procs
  BY TablesAreSound DEF NumberingInv, NumberingTypeOK
<1> USE DEF NumberingInv
<1>1. ncpu <= MaxCpus /\ DOMAIN idOf = 0 .. MaxCpus - 1 /\ DOMAIN apic = Mp!Procs
  BY DEF NumberingTypeOK
<1>2. ASSUME stage = "running", ismp
      PROVE  /\ Mp!Running = {id \in DOMAIN apic : id < ncpu}
             /\ \A id \in Mp!Running : idOf[id] = id /\ started[id] = "STARTED"
  <2>1. aps = ncpu /\ entry = End(config) /\ config.bsp < ncpu
    BY <1>2, Counting DEF BootOK, ScanOK, NumberingTypeOK
  <2>2. \A id \in Mp!Procs : apic[id] = "running" <=> id < ncpu
    BY <1>2, <2>1 DEF BootOK, NumberingTypeOK
  <2>3. \A id \in Mp!Procs : id < ncpu => idOf[id] = id
    BY <1>1 DEF ScanOK, NumberingTypeOK
  <2>4. \A id \in Mp!Procs : apic[id] = "running" => started[id] = "STARTED"
    BY <1>2 DEF BootOK, ScanOK
  <2> QED BY <1>1, <2>2, <2>3, <2>4 DEF Mp!Running
<1>3. ASSUME stage = "running", ~ismp
      PROVE  Mp!Running = {config.bsp} /\ ncpu <= 1 /\ Mp!Cpunum(config.bsp) = 0
  BY <1>1, <1>3, BehindScan DEF Mp!Running, BootOK, ScanOK
<1>4. ASSUME stage = "running" PROVE lint0 \cap Mp!Running = {config.bsp}
  BY <1>1, <1>4 DEF Mp!Running, BootOK
<1> QED BY <1>1, <1>2, <1>3, <1>4 DEF Mp!EntriesAreOwn, Mp!AloneWithoutTable, Mp!OneCpuGetsDevices

\* Whatever table the BIOS leaves, every CPU that runs has an entry of cpus[] of
\* its own, or the boot processor runs alone, and one CPU gets the devices'
\* interrupts.
THEOREM CpusAreNumbered ==
  ASSUME Mp!MpConfigAssumption
  PROVE  Mp!Spec => [](Mp!EntriesAreOwn /\ Mp!AloneWithoutTable /\ Mp!OneCpuGetsDevices)
<1>1. Mp!Init => NumberingInv
  BY NumberingInitially
<1>2. NumberingInv /\ [Mp!Next]_(Mp!vars) => NumberingInv'
  BY NumberingKeeps
<1>3. NumberingInv => Mp!EntriesAreOwn /\ Mp!AloneWithoutTable /\ Mp!OneCpuGetsDevices
  BY Consequences
<1> QED BY <1>1, <1>2, <1>3, PTL DEF Mp!Spec
-----------------------------------------------------------------------------
(* Page directories and TLBs: Tlb *)

TlbTypeOK ==
  /\ status \in [CpuEnvs -> {"FREE", "RUNNABLE", "RUNNING", "NOT_RUNNABLE", "DYING"}]
  /\ parent \in [CpuEnvs -> CpuEnvs \cup {Mmu!None}]
  /\ dir \in [CpuEnvs -> PageFrames \cup {Mmu!KernPgdir}]
  /\ pt \in [CpuEnvs -> [Pages -> PageFrames \cup {Mmu!Unmapped}]]
  /\ cur \in [Cores -> CpuEnvs \cup {Mmu!None}]
  /\ cr3 \in [Cores -> PageFrames \cup {Mmu!KernPgdir}]
  /\ tlb \in [Cores -> [Pages -> PageFrames \cup {Mmu!Unmapped}]]

\* A CPU runs an environment that is RUNNING or a zombie, no other CPU runs it,
\* and its directory is loaded.
CurOK ==
  \A cpu \in Cores :
    /\ cur[cpu] # Mmu!None => /\ status[cur[cpu]] \in {"RUNNING", "DYING"} /\ cr3[cpu] = dir[cur[cpu]]
                        /\ \A d \in Cores : cur[d] = cur[cpu] => d = cpu
    /\ cur[cpu] = Mmu!None => cr3[cpu] = Mmu!KernPgdir

\* An environment that is not free has a directory of its own.
DirsOK ==
  \A e \in CpuEnvs : status[e] # "FREE" =>
    dir[e] \in PageFrames /\ \A f \in CpuEnvs : status[f] # "FREE" /\ dir[f] = dir[e] => e = f

TlbInv == TlbTypeOK /\ CurOK /\ DirsOK

-----------------------------------------------------------------------------
(* The ways out of the kernel *)

\* A visit of CPU c to the kernel has left the statuses st and the directories
\* and page tables dir' and pt'; c may have lost its environment to the visit.
Visited(cpu, st) ==
  /\ st \in [CpuEnvs -> {"FREE", "RUNNABLE", "RUNNING", "NOT_RUNNABLE", "DYING"}]
  /\ parent' \in [CpuEnvs -> CpuEnvs \cup {Mmu!None}]
  /\ dir' \in [CpuEnvs -> PageFrames \cup {Mmu!KernPgdir}]
  /\ pt' \in [CpuEnvs -> [Pages -> PageFrames \cup {Mmu!Unmapped}]]
  /\ \A e \in CpuEnvs : st[e] # "FREE" =>
       dir'[e] \in PageFrames /\ \A f \in CpuEnvs : st[f] # "FREE" /\ dir'[f] = dir'[e] => e = f
  /\ \A d \in Cores \ {cpu} : cur[d] # Mmu!None =>
       st[cur[d]] \in {"RUNNING", "DYING"} /\ dir'[cur[d]] = dir[cur[d]]
  /\ \A e \in CpuEnvs : st[e] = "RUNNABLE" => \A d \in Cores : cur[d] # e
  /\ cur[cpu] # Mmu!None => st[cur[cpu]] \in {"FREE", "RUNNING"}

\* The CPU comes out with nothing in its TLB, and the others keep theirs.
Left(cpu) ==
  /\ cur' \in [Cores -> CpuEnvs \cup {Mmu!None}]
  /\ tlb'[cpu] = Mmu!NoPages
  /\ \A d \in Cores \ {cpu} : cur'[d] = cur[d] /\ tlb'[d] = tlb[d]

LEMMA RunLeaves ==
  ASSUME Mmu!None \notin CpuEnvs, TlbInv, NEW cpu \in Cores, NEW st, NEW e \in CpuEnvs, Visited(cpu, st),
         st[e] = "RUNNABLE" \/ (e = cur[cpu] /\ st[e] = "RUNNING"), Mmu!EnvRun(cpu, e, st)
  PROVE  TlbInv' /\ Left(cpu)
<1> USE DEF TlbInv, Visited
<1>1. /\ cur' = [cur EXCEPT ![cpu] = e] /\ cr3' = [cr3 EXCEPT ![cpu] = dir'[e]]
      /\ tlb' = [tlb EXCEPT ![cpu] = Mmu!NoPages]
      /\ status' = [x \in CpuEnvs |-> IF x = e THEN "RUNNING"
                                   ELSE IF x = cur[cpu] /\ st[x] = "RUNNING" THEN "RUNNABLE" ELSE st[x]]
  BY DEF Mmu!EnvRun, Mmu!Lcr3
<1>2. dir'[e] \in PageFrames
  OBVIOUS
<1>3. Mmu!NoPages \in [Pages -> PageFrames \cup {Mmu!Unmapped}]
  BY DEF Mmu!NoPages
<1>4. TlbTypeOK'
  BY <1>1, <1>2, <1>3 DEF TlbTypeOK
<1>5. /\ cur'[cpu] = e /\ cr3'[cpu] = dir'[e] /\ tlb'[cpu] = Mmu!NoPages
      /\ \A d \in Cores \ {cpu} : cur'[d] = cur[d] /\ cr3'[d] = cr3[d] /\ tlb'[d] = tlb[d]
  BY <1>1 DEF TlbTypeOK
<1>6. \A d \in Cores \ {cpu} : cur[d] # e /\ (cur[d] # Mmu!None => cur[d] # cur[cpu])
  BY DEF CurOK, TlbTypeOK
<1>7. CurOK'
  <2> SUFFICES ASSUME NEW d \in Cores
               PROVE  /\ cur'[d] # Mmu!None =>
                           /\ status'[cur'[d]] \in {"RUNNING", "DYING"} /\ cr3'[d] = dir'[cur'[d]]
                           /\ \A b \in Cores : cur'[b] = cur'[d] => b = d
                      /\ cur'[d] = Mmu!None => cr3'[d] = Mmu!KernPgdir
    BY DEF CurOK
  <2>1. CASE d = cpu
    BY <1>1, <1>5, <1>6, <2>1
  <2>2. CASE d # cpu /\ cur[d] # Mmu!None
    <3>1. /\ cur[d] \in CpuEnvs /\ cur[d] # e /\ cur[d] # cur[cpu]
          /\ st[cur[d]] \in {"RUNNING", "DYING"} /\ dir'[cur[d]] = dir[cur[d]]
      BY <1>6, <2>2 DEF TlbTypeOK
    <3>2. status'[cur[d]] = st[cur[d]]
      BY <1>1, <3>1
    <3>3. cr3[d] = dir[cur[d]] /\ \A b \in Cores : cur[b] = cur[d] => b = d
      BY <2>2 DEF CurOK
    <3> QED BY <1>5, <2>2, <3>1, <3>2, <3>3
  <2>3. CASE d # cpu /\ cur[d] = Mmu!None
    BY <1>5, <2>3 DEF CurOK
  <2> QED BY <2>1, <2>2, <2>3
<1>8. DirsOK'
  <2>1. \A x \in CpuEnvs : status'[x] # "FREE" => st[x] # "FREE"
    BY <1>1
  <2> QED BY <2>1 DEF DirsOK
<1> QED BY <1>1, <1>4, <1>5, <1>7, <1>8 DEF Left, TlbTypeOK

LEMMA HaltLeaves ==
  ASSUME Mmu!None \notin CpuEnvs, TlbInv, NEW cpu \in Cores, NEW st, Visited(cpu, st), Mmu!SchedHalt(cpu, st)
  PROVE  TlbInv' /\ Left(cpu)
<1> USE DEF TlbInv, Visited
<1>1. /\ cur' = [cur EXCEPT ![cpu] = Mmu!None] /\ cr3' = [cr3 EXCEPT ![cpu] = Mmu!KernPgdir]
      /\ tlb' = [tlb EXCEPT ![cpu] = Mmu!NoPages] /\ status' = st
  BY DEF Mmu!SchedHalt, Mmu!Lcr3
<1>2. Mmu!NoPages \in [Pages -> PageFrames \cup {Mmu!Unmapped}]
  BY DEF Mmu!NoPages
<1>3. TlbTypeOK'
  BY <1>1, <1>2 DEF TlbTypeOK
<1>4. /\ cur'[cpu] = Mmu!None /\ cr3'[cpu] = Mmu!KernPgdir /\ tlb'[cpu] = Mmu!NoPages
      /\ \A d \in Cores \ {cpu} : cur'[d] = cur[d] /\ cr3'[d] = cr3[d] /\ tlb'[d] = tlb[d]
  BY <1>1 DEF TlbTypeOK
<1>5. CurOK'
  BY <1>1, <1>4 DEF CurOK
<1>6. DirsOK'
  BY <1>1 DEF DirsOK
<1> QED BY <1>3, <1>4, <1>5, <1>6 DEF Left, TlbTypeOK

LEMMA YieldLeaves ==
  ASSUME Mmu!None \notin CpuEnvs, TlbInv, NEW cpu \in Cores, NEW st, Visited(cpu, st),
         NEW own \in {cur[cpu], Mmu!None},
         Mmu!SchedYield(cpu, st, own)
  PROVE  TlbInv' /\ Left(cpu)
<1>1. \/ \E e \in CpuEnvs : st[e] = "RUNNABLE" /\ Mmu!EnvRun(cpu, e, st)
      \/ own # Mmu!None /\ own = cur[cpu] /\ st[own] = "RUNNING" /\ Mmu!EnvRun(cpu, own, st)
      \/ Mmu!SchedHalt(cpu, st)
  BY DEF Mmu!SchedYield
<1>2. cur[cpu] # Mmu!None => cur[cpu] \in CpuEnvs
  BY DEF TlbInv, TlbTypeOK
<1> QED BY <1>1, <1>2, RunLeaves, HaltLeaves

LEMMA ReturnLeaves ==
  ASSUME Mmu!None \notin CpuEnvs, TlbInv, NEW cpu \in Cores, NEW st, Visited(cpu, st), cur[cpu] # Mmu!None,
         Mmu!Return(cpu, st)
  PROVE  TlbInv' /\ Left(cpu)
<1>1. cur[cpu] \in CpuEnvs
  BY DEF TlbInv, TlbTypeOK
<1> QED BY <1>1, RunLeaves, YieldLeaves DEF Mmu!Return

-----------------------------------------------------------------------------
(* What the visits do *)

\* The environments whose address space a visit of c may have changed.
Spares(cpu) == \A d \in Cores \ {cpu} : cur[d] # Mmu!None => pt'[cur[d]] = pt[cur[d]]

\* Freeing an environment that no other CPU runs.
LEMMA FreedVisited ==
  ASSUME Mmu!None \notin CpuEnvs, TlbInv, NEW cpu \in Cores, NEW e \in CpuEnvs, Mmu!Freed(e),
         \A d \in Cores \ {cpu} : cur[d] # e,
         cur[cpu] # Mmu!None => e = cur[cpu] \/ status[cur[cpu]] = "RUNNING"
  PROVE  Visited(cpu, [status EXCEPT ![e] = "FREE"]) /\ Spares(cpu)
<1> USE DEF TlbInv
<1>1. /\ parent' = [x \in CpuEnvs |-> IF x = e \/ parent[x] = e THEN Mmu!None ELSE parent[x]]
      /\ dir' = [dir EXCEPT ![e] = Mmu!KernPgdir] /\ pt' = [pt EXCEPT ![e] = Mmu!NoPages]
  BY DEF Mmu!Freed
<1>2. Mmu!NoPages \in [Pages -> PageFrames \cup {Mmu!Unmapped}]
  BY DEF Mmu!NoPages
<1> DEFINE st == [status EXCEPT ![e] = "FREE"]
<1>3. /\ st \in [CpuEnvs -> {"FREE", "RUNNABLE", "RUNNING", "NOT_RUNNABLE", "DYING"}]
      /\ st[e] = "FREE" /\ \A f \in CpuEnvs : f # e => st[f] = status[f]
  BY DEF TlbTypeOK
<1>4. \A f \in CpuEnvs : f # e => dir'[f] = dir[f] /\ pt'[f] = pt[f]
  BY <1>1 DEF TlbTypeOK
<1> HIDE DEF st
<1>5. /\ parent' \in [CpuEnvs -> CpuEnvs \cup {Mmu!None}]
      /\ dir' \in [CpuEnvs -> PageFrames \cup {Mmu!KernPgdir}]
      /\ pt' \in [CpuEnvs -> [Pages -> PageFrames \cup {Mmu!Unmapped}]]
  BY <1>1, <1>2 DEF TlbTypeOK
<1>6. \A f \in CpuEnvs : st[f] # "FREE" =>
        dir'[f] \in PageFrames /\ \A g \in CpuEnvs : st[g] # "FREE" /\ dir'[g] = dir'[f] => f = g
  BY <1>3, <1>4 DEF DirsOK
<1>7. \A d \in Cores \ {cpu} : cur[d] # Mmu!None =>
        /\ st[cur[d]] \in {"RUNNING", "DYING"} /\ dir'[cur[d]] = dir[cur[d]]
        /\ pt'[cur[d]] = pt[cur[d]]
  BY <1>3, <1>4 DEF CurOK, TlbTypeOK
<1>8. \A f \in CpuEnvs : st[f] = "RUNNABLE" => \A d \in Cores : cur[d] # f
  BY <1>3 DEF CurOK
<1>9. cur[cpu] # Mmu!None => st[cur[cpu]] \in {"FREE", "RUNNING"}
  BY <1>3 DEF TlbTypeOK
<1>10. Visited(cpu, st) /\ Spares(cpu)
  BY <1>3, <1>5, <1>6, <1>7, <1>8, <1>9 DEF Visited, Spares
<1> QED BY <1>10 DEF st

\* A new status for an environment that changes no address space.
LEMMA MarkedVisited ==
  ASSUME Mmu!None \notin CpuEnvs, TlbInv, NEW cpu \in Cores, NEW e \in CpuEnvs, cur[cpu] # e,
         UNCHANGED <<dir, pt, parent>>,
         cur[cpu] # Mmu!None => status[cur[cpu]] = "RUNNING",
         NEW s \in {"RUNNABLE", "DYING"}, status[e] # "FREE",
         s = "RUNNABLE" => \A d \in Cores : cur[d] # e
  PROVE  Visited(cpu, [status EXCEPT ![e] = s]) /\ Spares(cpu)
<1> USE DEF TlbInv
<1> DEFINE st == [status EXCEPT ![e] = s]
<1>1. /\ st \in [CpuEnvs -> {"FREE", "RUNNABLE", "RUNNING", "NOT_RUNNABLE", "DYING"}]
      /\ st[e] = s /\ \A f \in CpuEnvs : f # e => st[f] = status[f]
  BY DEF TlbTypeOK
<1> HIDE DEF st
<1>2. \A f \in CpuEnvs : st[f] # "FREE" =>
        dir[f] \in PageFrames /\ \A g \in CpuEnvs : st[g] # "FREE" /\ dir[g] = dir[f] => f = g
  BY <1>1 DEF DirsOK
<1>3. \A d \in Cores \ {cpu} : cur[d] # Mmu!None => st[cur[d]] \in {"RUNNING", "DYING"}
  BY <1>1 DEF CurOK, TlbTypeOK
<1>4. \A f \in CpuEnvs : st[f] = "RUNNABLE" => \A d \in Cores : cur[d] # f
  BY <1>1 DEF CurOK
<1>5. cur[cpu] # Mmu!None => st[cur[cpu]] \in {"FREE", "RUNNING"}
  BY <1>1 DEF TlbTypeOK
<1>6. Visited(cpu, st) /\ Spares(cpu)
  BY <1>1, <1>2, <1>3, <1>4, <1>5 DEF Visited, Spares, TlbTypeOK
<1> QED BY <1>6 DEF st

\* A visit that changes no status, and no directory.
LEMMA PlainVisited ==
  ASSUME Mmu!None \notin CpuEnvs, TlbInv, NEW cpu \in Cores, UNCHANGED <<dir, parent>>,
         pt' \in [CpuEnvs -> [Pages -> PageFrames \cup {Mmu!Unmapped}]],
         cur[cpu] # Mmu!None => status[cur[cpu]] = "RUNNING"
  PROVE  Visited(cpu, status)
<1> USE DEF TlbInv
<1>1. \A d \in Cores \ {cpu} : cur[d] # Mmu!None => status[cur[d]] \in {"RUNNING", "DYING"}
  BY DEF CurOK
<1>2. \A f \in CpuEnvs : status[f] = "RUNNABLE" => \A d \in Cores : cur[d] # f
  BY DEF CurOK
<1> QED BY <1>1, <1>2 DEF Visited, TlbTypeOK, DirsOK

\* A new child with a directory of its own.
LEMMA ForkedVisited ==
  ASSUME Mmu!TlbAssumption, TlbInv, NEW cpu \in Cores, NEW e \in CpuEnvs, Mmu!Enters(cpu), status[e] = "FREE",
         NEW f \in Mmu!FreeFrames, dir' = [dir EXCEPT ![e] = f],
         parent' = [parent EXCEPT ![e] = cur[cpu]], UNCHANGED pt
  PROVE  Visited(cpu, [status EXCEPT ![e] = "NOT_RUNNABLE"]) /\ Spares(cpu)
<1> USE DEF TlbInv
<1> DEFINE st == [status EXCEPT ![e] = "NOT_RUNNABLE"]
<1>1. /\ st \in [CpuEnvs -> {"FREE", "RUNNABLE", "RUNNING", "NOT_RUNNABLE", "DYING"}]
      /\ st[e] = "NOT_RUNNABLE" /\ \A g \in CpuEnvs : g # e => st[g] = status[g]
  BY DEF TlbTypeOK
<1> HIDE DEF st
<1>2. f \in PageFrames /\ \A g \in CpuEnvs : status[g] # "FREE" => dir[g] # f
  BY DEF Mmu!FreeFrames, Mmu!Live
<1>3. dir'[e] = f /\ \A g \in CpuEnvs : g # e => dir'[g] = dir[g]
  BY DEF TlbTypeOK
<1>4. dir' \in [CpuEnvs -> PageFrames \cup {Mmu!KernPgdir}] /\ parent' \in [CpuEnvs -> CpuEnvs \cup {Mmu!None}]
  BY <1>2 DEF TlbTypeOK
<1>5. \A g \in CpuEnvs : st[g] # "FREE" =>
        dir'[g] \in PageFrames /\ \A h \in CpuEnvs : st[h] # "FREE" /\ dir'[h] = dir'[g] => g = h
  BY <1>1, <1>2, <1>3 DEF DirsOK
<1>6. \A d \in Cores : cur[d] # Mmu!None => cur[d] \in CpuEnvs /\ cur[d] # e
  BY DEF CurOK, TlbTypeOK
<1>7. \A d \in Cores \ {cpu} : cur[d] # Mmu!None =>
        st[cur[d]] \in {"RUNNING", "DYING"} /\ dir'[cur[d]] = dir[cur[d]]
  BY <1>1, <1>3, <1>6 DEF CurOK
<1>8. \A g \in CpuEnvs : st[g] = "RUNNABLE" => \A d \in Cores : cur[d] # g
  BY <1>1 DEF CurOK, Mmu!TlbAssumption
<1>9. cur[cpu] # Mmu!None => st[cur[cpu]] \in {"FREE", "RUNNING"}
  BY <1>1, <1>6 DEF Mmu!Enters
<1>10. Visited(cpu, st) /\ Spares(cpu)
  BY <1>1, <1>4, <1>5, <1>7, <1>8, <1>9 DEF Visited, Spares, TlbTypeOK
<1> QED BY <1>10 DEF st

-----------------------------------------------------------------------------
(* The actions *)

\* Every visit keeps the invariant, empties the TLB of its CPU and leaves those
\* of the others alone.  It changes the page tables of an environment on another
\* CPU only if EditRunning allows that.
VisitOK(cpu) == TlbInv' /\ Left(cpu) /\ (~EditRunning => Spares(cpu))

LEMMA TouchKeeps ==
  ASSUME TlbInv, NEW cpu \in Cores, NEW v \in Pages, Mmu!Touch(cpu, v)
  PROVE  /\ TlbInv'
         /\ tlb' = [tlb EXCEPT ![cpu][v] = pt[cur[cpu]][v]]
<1> USE DEF TlbInv
<1>1. PICK e \in CpuEnvs : status[e] # "FREE" /\ dir[e] = cr3[cpu] /\ tlb' = [tlb EXCEPT ![cpu][v] = pt[e][v]]
  BY DEF Mmu!Touch
<1>2. /\ cur[cpu] # Mmu!None
      /\ UNCHANGED <<status, parent, dir, pt, cur, cr3>>
  BY DEF Mmu!Touch
<1>3. cur[cpu] \in CpuEnvs /\ status[cur[cpu]] # "FREE" /\ cr3[cpu] = dir[cur[cpu]]
  BY <1>2 DEF CurOK, TlbTypeOK
<1>4. e = cur[cpu]
  BY <1>1, <1>3 DEF DirsOK
<1>5. tlb' \in [Cores -> [Pages -> PageFrames \cup {Mmu!Unmapped}]]
  BY <1>1 DEF TlbTypeOK
<1> QED BY <1>1, <1>2, <1>4, <1>5 DEF TlbTypeOK, CurOK, DirsOK

LEMMA TrapDyingKeeps ==
  ASSUME Mmu!TlbAssumption, TlbInv, NEW cpu \in Cores, Mmu!TrapDying(cpu)
  PROVE  VisitOK(cpu)
<1>1. cur[cpu] # Mmu!None /\ cur[cpu] \in CpuEnvs
  BY DEF Mmu!TrapDying, TlbInv, TlbTypeOK
<1>2. Mmu!Freed(cur[cpu]) /\ Mmu!SchedYield(cpu, [status EXCEPT ![cur[cpu]] = "FREE"], Mmu!None)
  BY DEF Mmu!TrapDying
<1>3. \A d \in Cores \ {cpu} : cur[d] # cur[cpu]
  BY <1>1 DEF TlbInv, CurOK
<1>4. Mmu!None \notin CpuEnvs
  BY DEF Mmu!TlbAssumption
<1>5. Visited(cpu, [status EXCEPT ![cur[cpu]] = "FREE"]) /\ Spares(cpu)
  BY <1>1, <1>2, <1>3, <1>4, FreedVisited
<1> QED BY <1>2, <1>4, <1>5, YieldLeaves DEF VisitOK

LEMMA SetPageKeeps ==
  ASSUME Mmu!TlbAssumption, TlbInv, NEW cpu \in Cores, NEW e \in CpuEnvs, NEW v \in Pages,
         NEW f \in PageFrames \cup {Mmu!Unmapped}, Mmu!SetPage(cpu, e, v, f)
  PROVE  VisitOK(cpu)
<1>1. /\ cur[cpu] # Mmu!None /\ status[cur[cpu]] = "RUNNING"
      /\ EditRunning \/ ~Mmu!RunsElsewhere(cpu, e)
      /\ pt' = [pt EXCEPT ![e][v] = f] /\ UNCHANGED <<dir, parent>>
      /\ Mmu!Return(cpu, status)
  BY DEF Mmu!SetPage, Mmu!Enters
<1>2. pt' \in [CpuEnvs -> [Pages -> PageFrames \cup {Mmu!Unmapped}]]
  BY <1>1 DEF TlbInv, TlbTypeOK
<1>3. Mmu!None \notin CpuEnvs
  BY DEF Mmu!TlbAssumption
<1>4. TlbInv' /\ Left(cpu)
  BY <1>1, <1>2, <1>3, PlainVisited, ReturnLeaves
<1>5. ASSUME ~EditRunning PROVE Spares(cpu)
  <2>1. \A g \in CpuEnvs : g # e => pt'[g] = pt[g]
    BY <1>1 DEF TlbInv, TlbTypeOK
  <2>2. \A d \in Cores \ {cpu} : cur[d] # e
    BY <1>1, <1>5 DEF Mmu!RunsElsewhere
  <2> QED BY <2>1, <2>2 DEF Spares, TlbInv, TlbTypeOK
<1> QED BY <1>4, <1>5 DEF VisitOK

LEMMA ExoforkKeeps ==
  ASSUME Mmu!TlbAssumption, TlbInv, NEW cpu \in Cores, NEW e \in CpuEnvs, Mmu!Exofork(cpu, e)
  PROVE  VisitOK(cpu)
<1>1. PICK f \in Mmu!FreeFrames : dir' = [dir EXCEPT ![e] = f]
  BY DEF Mmu!Exofork
<1>2. /\ Mmu!Enters(cpu) /\ status[e] = "FREE" /\ cur[cpu] # Mmu!None
      /\ parent' = [parent EXCEPT ![e] = cur[cpu]] /\ UNCHANGED pt
      /\ Mmu!Return(cpu, [status EXCEPT ![e] = "NOT_RUNNABLE"])
  BY DEF Mmu!Exofork, Mmu!Enters
<1>3. Visited(cpu, [status EXCEPT ![e] = "NOT_RUNNABLE"]) /\ Spares(cpu)
  BY <1>1, <1>2, ForkedVisited
<1> QED BY <1>2, <1>3, ReturnLeaves DEF VisitOK, Mmu!TlbAssumption

LEMMA WakeKeeps ==
  ASSUME Mmu!TlbAssumption, TlbInv, NEW cpu \in Cores, NEW e \in CpuEnvs, Mmu!Wake(cpu, e)
  PROVE  VisitOK(cpu)
<1>1. /\ cur[cpu] # Mmu!None /\ status[cur[cpu]] = "RUNNING" /\ status[e] = "NOT_RUNNABLE"
      /\ UNCHANGED <<dir, pt, parent>>
      /\ Mmu!Return(cpu, [status EXCEPT ![e] = "RUNNABLE"])
  BY DEF Mmu!Wake, Mmu!Enters
<1>2. \A d \in Cores : cur[d] # e
  BY <1>1 DEF TlbInv, CurOK, TlbTypeOK, Mmu!TlbAssumption
<1>3. Visited(cpu, [status EXCEPT ![e] = "RUNNABLE"]) /\ Spares(cpu)
  BY <1>1, <1>2, MarkedVisited DEF Mmu!TlbAssumption
<1> QED BY <1>1, <1>3, ReturnLeaves DEF VisitOK, Mmu!TlbAssumption

LEMMA DestroyKeeps ==
  ASSUME Mmu!TlbAssumption, ~KillTwice, TlbInv, NEW cpu \in Cores, NEW e \in CpuEnvs, Mmu!Destroy(cpu, e)
  PROVE  VisitOK(cpu)
<1>1. /\ cur[cpu] # Mmu!None /\ cur[cpu] \in CpuEnvs /\ status[cur[cpu]] = "RUNNING" /\ Mmu!None \notin CpuEnvs
      /\ status[e] # "FREE" /\ status[e] # "DYING"
  BY DEF Mmu!Destroy, Mmu!Enters, Mmu!MayChange, TlbInv, TlbTypeOK, Mmu!TlbAssumption
<1>2. CASE e # cur[cpu] /\ status[e] = "RUNNING"
  <2>1. UNCHANGED <<dir, pt, parent>> /\ Mmu!Return(cpu, [status EXCEPT ![e] = "DYING"])
    BY <1>2 DEF Mmu!Destroy
  <2>2. Visited(cpu, [status EXCEPT ![e] = "DYING"]) /\ Spares(cpu)
    BY <1>1, <1>2, <2>1, MarkedVisited
  <2> QED BY <1>1, <2>1, <2>2, ReturnLeaves DEF VisitOK
<1>3. CASE e # cur[cpu] /\ status[e] # "RUNNING"
  <2>1. Mmu!Freed(e) /\ Mmu!Return(cpu, [status EXCEPT ![e] = "FREE"])
    BY <1>3 DEF Mmu!Destroy
  <2>2. \A d \in Cores : cur[d] # e
    BY <1>1, <1>3 DEF TlbInv, CurOK
  <2>3. Visited(cpu, [status EXCEPT ![e] = "FREE"]) /\ Spares(cpu)
    BY <1>1, <2>1, <2>2, FreedVisited
  <2> QED BY <1>1, <2>1, <2>3, ReturnLeaves DEF VisitOK
<1>4. CASE e = cur[cpu]
  <2>1. Mmu!Freed(e) /\ Mmu!SchedYield(cpu, [status EXCEPT ![e] = "FREE"], Mmu!None)
    BY <1>4 DEF Mmu!Destroy
  <2>2. \A d \in Cores \ {cpu} : cur[d] # e
    BY <1>1, <1>4 DEF TlbInv, CurOK
  <2>3. Visited(cpu, [status EXCEPT ![e] = "FREE"]) /\ Spares(cpu)
    BY <1>1, <1>4, <2>1, <2>2, FreedVisited
  <2> QED BY <1>1, <2>1, <2>3, YieldLeaves DEF VisitOK
<1> QED BY <1>2, <1>3, <1>4

LEMMA YieldKeeps ==
  ASSUME Mmu!TlbAssumption, TlbInv, NEW cpu \in Cores, Mmu!Yield(cpu)
  PROVE  VisitOK(cpu)
<1>1. /\ cur[cpu] # Mmu!None => status[cur[cpu]] = "RUNNING"
      /\ UNCHANGED <<dir, pt, parent>> /\ Mmu!SchedYield(cpu, status, cur[cpu])
  BY DEF Mmu!Yield, Mmu!Enters
<1>2. pt' \in [CpuEnvs -> [Pages -> PageFrames \cup {Mmu!Unmapped}]] /\ Mmu!None \notin CpuEnvs
  BY <1>1 DEF TlbInv, TlbTypeOK, Mmu!TlbAssumption
<1>3. Visited(cpu, status)
  BY <1>1, <1>2, PlainVisited
<1>4. Spares(cpu)
  BY <1>1 DEF Spares
<1> QED BY <1>1, <1>2, <1>3, <1>4, YieldLeaves DEF VisitOK

\* A step is a touch or a visit.
LEMMA VisitsKeep ==
  ASSUME Mmu!TlbAssumption, ~KillTwice, TlbInv, Mmu!Next
  PROVE  \E cpu \in Cores : (\E v \in Pages : Mmu!Touch(cpu, v)) \/ VisitOK(cpu)
<1>1. PICK cpu \in Cores :
        \/ \E v \in Pages : Mmu!Touch(cpu, v)
        \/ Mmu!TrapDying(cpu)
        \/ \E e \in CpuEnvs, v \in Pages : Mmu!PageAlloc(cpu, e, v)
        \/ \E e \in CpuEnvs, v \in Pages : Mmu!PageUnmap(cpu, e, v)
        \/ \E e \in CpuEnvs : Mmu!Exofork(cpu, e)
        \/ \E e \in CpuEnvs : Mmu!Wake(cpu, e)
        \/ \E e \in CpuEnvs : Mmu!Destroy(cpu, e)
        \/ Mmu!Yield(cpu)
  BY DEF Mmu!Next
<1>2. ASSUME NEW e \in CpuEnvs, NEW v \in Pages, Mmu!PageAlloc(cpu, e, v) PROVE VisitOK(cpu)
  <2>1. PICK f \in Mmu!FreeFrames : Mmu!SetPage(cpu, e, v, f)
    BY <1>2 DEF Mmu!PageAlloc
  <2>2. f \in PageFrames
    BY DEF Mmu!FreeFrames
  <2> QED BY <2>1, <2>2, SetPageKeeps
<1>3. ASSUME NEW e \in CpuEnvs, NEW v \in Pages, Mmu!PageUnmap(cpu, e, v) PROVE VisitOK(cpu)
  BY <1>3, SetPageKeeps DEF Mmu!PageUnmap
<1> QED BY <1>1, <1>2, <1>3, TrapDyingKeeps, ExoforkKeeps, WakeKeeps, DestroyKeeps, YieldKeeps

LEMMA TlbInitially ==
  ASSUME Mmu!TlbAssumption, Mmu!Init
  PROVE  TlbInv /\ Mmu!NoStaleTranslation
<1>1. PICK e \in CpuEnvs, f \in PageFrames :
        /\ status = [x \in CpuEnvs |-> IF x = e THEN "RUNNABLE" ELSE "FREE"]
        /\ dir = [x \in CpuEnvs |-> IF x = e THEN f ELSE Mmu!KernPgdir]
  BY DEF Mmu!Init
<1>2. /\ pt = [x \in CpuEnvs |-> Mmu!NoPages] /\ parent = [x \in CpuEnvs |-> Mmu!None]
      /\ cur = [cpu \in Cores |-> Mmu!None] /\ cr3 = [cpu \in Cores |-> Mmu!KernPgdir]
      /\ tlb = [cpu \in Cores |-> Mmu!NoPages]
  BY DEF Mmu!Init
<1>3. Mmu!NoPages \in [Pages -> PageFrames \cup {Mmu!Unmapped}]
  BY DEF Mmu!NoPages
<1>4. TlbTypeOK
  BY <1>1, <1>2, <1>3 DEF TlbTypeOK
<1>5. CurOK /\ DirsOK
  BY <1>1, <1>2 DEF CurOK, DirsOK
<1>6. Mmu!NoStaleTranslation
  BY <1>2 DEF Mmu!NoStaleTranslation, Mmu!UserCpus
<1> QED BY <1>4, <1>5, <1>6 DEF TlbInv

-----------------------------------------------------------------------------
(* Theorems *)

LEMMA TlbInductive == ASSUME Mmu!TlbAssumption, ~KillTwice PROVE Mmu!Spec => []TlbInv
<1>1. Mmu!Init => TlbInv
  BY TlbInitially
<1>2. ASSUME TlbInv, [Mmu!Next]_(Mmu!vars) PROVE TlbInv'
  <2>1. CASE Mmu!Next
    BY <1>2, <2>1, VisitsKeep, TouchKeeps DEF VisitOK
  <2>2. CASE UNCHANGED Mmu!vars
    BY <1>2, <2>2 DEF Mmu!vars, TlbInv, TlbTypeOK, CurOK, DirsOK
  <2> QED BY <1>2, <2>1, <2>2
<1> QED BY <1>1, <1>2, PTL DEF Mmu!Spec

\* env_free gives the page of a directory back only after every CPU has left it:
\* however many CPUs there are, none of them has loaded a directory that belongs
\* to no environment, provided that no zombie is destroyed again.
THEOREM PgdirsAreLive == ASSUME Mmu!TlbAssumption, ~KillTwice PROVE Mmu!Spec => []Mmu!LoadedPgdirIsLive
<1>1. TlbInv => Mmu!LoadedPgdirIsLive
  <2> SUFFICES ASSUME TlbInv, NEW cpu \in Cores, cr3[cpu] # Mmu!KernPgdir
               PROVE  \E e \in Mmu!Live(status) : dir[e] = cr3[cpu]
    BY DEF Mmu!LoadedPgdirIsLive
  <2>1. cur[cpu] # Mmu!None /\ cur[cpu] \in CpuEnvs
    BY DEF TlbInv, CurOK, TlbTypeOK
  <2> QED BY <2>1 DEF TlbInv, CurOK, Mmu!Live
<1> QED BY <1>1, TlbInductive, PTL

\* tlb_invalidate reaches only the CPU that calls it, and that is enough: no CPU
\* translates by an entry that the page tables have lost, however many CPUs there
\* are, provided that system calls leave the address spaces of environments on
\* other CPUs alone and that no zombie is destroyed again.
THEOREM TranslationsAreFresh ==
  ASSUME Mmu!TlbAssumption, ~KillTwice, ~EditRunning PROVE Mmu!Spec => []Mmu!NoStaleTranslation
<1>1. Mmu!Init => Mmu!NoStaleTranslation
  BY TlbInitially
<1>2. ASSUME TlbInv, Mmu!NoStaleTranslation, [Mmu!Next]_(Mmu!vars) PROVE Mmu!NoStaleTranslation'
  <2>1. ASSUME NEW cpu \in Cores, NEW v \in Pages, Mmu!Touch(cpu, v) PROVE Mmu!NoStaleTranslation'
    <3>1. tlb' = [tlb EXCEPT ![cpu][v] = pt[cur[cpu]][v]] /\ UNCHANGED <<cur, pt>>
      BY <1>2, <2>1, TouchKeeps DEF Mmu!Touch
    <3>2. tlb \in [Cores -> [Pages -> PageFrames \cup {Mmu!Unmapped}]]
      BY <1>2 DEF TlbInv, TlbTypeOK
    <3>3. \A d \in Cores, w \in Pages :
            tlb'[d][w] = IF d = cpu /\ w = v THEN pt[cur[cpu]][v] ELSE tlb[d][w]
      BY <3>1, <3>2
    <3> QED BY <1>2, <3>1, <3>3 DEF Mmu!NoStaleTranslation, Mmu!UserCpus
  <2>2. ASSUME NEW cpu \in Cores, VisitOK(cpu) PROVE Mmu!NoStaleTranslation'
    <3>1. /\ tlb'[cpu] = Mmu!NoPages
          /\ \A d \in Cores \ {cpu} : cur'[d] = cur[d] /\ tlb'[d] = tlb[d]
          /\ \A d \in Cores \ {cpu} : cur[d] # Mmu!None => pt'[cur[d]] = pt[cur[d]]
      BY <2>2 DEF VisitOK, Left, Spares
    <3>2. \A v \in Pages : tlb'[cpu][v] = Mmu!Unmapped
      BY <3>1 DEF Mmu!NoPages
    <3> QED BY <1>2, <3>1, <3>2 DEF Mmu!NoStaleTranslation, Mmu!UserCpus
  <2>3. CASE Mmu!Next
    BY <1>2, <2>1, <2>2, <2>3, VisitsKeep
  <2>4. CASE UNCHANGED Mmu!vars
    BY <1>2, <2>4 DEF Mmu!vars, Mmu!NoStaleTranslation, Mmu!UserCpus
  <2> QED BY <1>2, <2>3, <2>4
<1> QED BY <1>1, <1>2, TlbInductive, PTL DEF Mmu!Spec

-----------------------------------------------------------------------------
(* Together: CpuParts *)

LEMMA OneCpuPart ==
  [CpuNext]_cpuVars =>
    /\ cpuPart = "Descriptors" => cpuPart' = "Descriptors" /\ [Segs!Next]_(Segs!vars)
    /\ cpuPart = "MpConfig" => cpuPart' = "MpConfig" /\ [Mp!Next]_(Mp!vars)
    /\ cpuPart = "Tlb" => cpuPart' = "Tlb" /\ [Mmu!Next]_(Mmu!vars)
    /\ cpuPart \notin {"Descriptors", "MpConfig", "Tlb"} => cpuPart' = cpuPart
BY DEF CpuNext, cpuVars, segVars, mpVars, mmuVars, Segs!vars, Mp!vars, Mmu!vars

\* Every CPU has its own: an entry of cpus[] and a number, segments, a task state
\* and a stack, and translations that are not out of date, however many CPUs there
\* are, provided that system calls leave the address spaces of environments on
\* other CPUs alone and that no zombie is destroyed again.
THEOREM CpusStayApart == ASSUME ~KillTwice, ~EditRunning PROVE CpuSpec => []CpusAreApart
<1> USE CpuPartsAssumption
<1> DEFINE OfSegs == cpuPart = "Descriptors"
           OfMp == cpuPart = "MpConfig"
           OfMmu == cpuPart = "Tlb"
<1>1. CpuSpec /\ OfSegs => [](OfSegs /\ Segs!CpusAreApart)
  <2>1. CpuInit /\ OfSegs => Segs!Init
    BY DEF CpuInit
  <2>2. OfSegs /\ [CpuNext]_cpuVars => OfSegs' /\ [Segs!Next]_(Segs!vars)
    BY OneCpuPart
  <2>3. Segs!NoCpuFaults /\ Segs!StacksAreOwn => Segs!CpusAreApart
    BY DEF Segs!CpusAreApart
  <2>4. Segs!Spec => []Segs!CpusAreApart
    BY <2>3, SelectorsLoad, StacksStayApart, PTL
  <2> QED BY <2>1, <2>2, <2>4, PTL DEF CpuSpec, Segs!Spec
<1>2. CpuSpec /\ OfMp => [](OfMp /\ Mp!CpusAreApart)
  <2>1. CpuInit /\ OfMp => Mp!Init
    BY DEF CpuInit
  <2>2. OfMp /\ [CpuNext]_cpuVars => OfMp' /\ [Mp!Next]_(Mp!vars)
    BY OneCpuPart
  <2>3. Mp!EntriesAreOwn /\ Mp!AloneWithoutTable /\ Mp!OneCpuGetsDevices => Mp!CpusAreApart
    BY DEF Mp!CpusAreApart
  <2>4. Mp!Spec => []Mp!CpusAreApart
    BY <2>3, CpusAreNumbered, PTL
  <2> QED BY <2>1, <2>2, <2>4, PTL DEF CpuSpec, Mp!Spec
<1>3. CpuSpec /\ OfMmu => [](OfMmu /\ Mmu!CpusAreApart)
  <2>1. CpuInit /\ OfMmu => Mmu!Init
    BY DEF CpuInit
  <2>2. OfMmu /\ [CpuNext]_cpuVars => OfMmu' /\ [Mmu!Next]_(Mmu!vars)
    BY OneCpuPart
  <2>3. Mmu!LoadedPgdirIsLive /\ Mmu!NoStaleTranslation => Mmu!CpusAreApart
    BY DEF Mmu!CpusAreApart
  <2>4. Mmu!Spec => []Mmu!CpusAreApart
    BY <2>3, PgdirsAreLive, TranslationsAreFresh, PTL
  <2> QED BY <2>1, <2>2, <2>4, PTL DEF CpuSpec, Mmu!Spec
<1>4. /\ OfSegs /\ Segs!CpusAreApart => CpusAreApart
      /\ OfMp /\ Mp!CpusAreApart => CpusAreApart
      /\ OfMmu /\ Mmu!CpusAreApart => CpusAreApart
  BY DEF CpusAreApart
<1>5. CpuInit => OfSegs \/ OfMp \/ OfMmu
  BY DEF CpuInit
<1> QED BY <1>1, <1>2, <1>3, <1>4, <1>5, PTL DEF CpuSpec
================================================================================

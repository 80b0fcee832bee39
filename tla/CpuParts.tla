-------------------------------- MODULE CpuParts --------------------------------
(***************************************************************************)
(* What each CPU has for itself, in one specification: segments, task      *)
(* states and stacks (Descriptors, here with the prefix Segs), the entry   *)
(* of cpus[] (MpConfig, here Mp), and what it translates by (Tlb, here     *)
(* Mmu).  The three do not share state in their models: a behaviour is a   *)
(* behaviour of one of them, and the variables of the others stay 0.       *)
(***************************************************************************)
EXTENDS Integers

CONSTANTS
  MaxCpus,                                                    \* NCPU of Descriptors and MpConfig
  Machines, StackSize, StackGap, StackTop, Kstacks,           \* of Descriptors
  Tables,                                                     \* Machines of MpConfig
  Cores, CpuEnvs, Pages, PageFrames, EditRunning, KillTwice   \* of Tlb

VARIABLES
  cpuPart,   \* whose behaviour it is
  machine, gdt, ts, cpuid, lapic, table, seg, tr, esp, pc, c, lock, faulted,
  config, stage, entry, ismp, ncpu, bootcpu, lapicaddr, idOf, started, apic, lint0, aps,
  status, parent, dir, pt, cur, cr3, tlb

Segs == INSTANCE Descriptors WITH
  NCPU <- MaxCpus, KSTKSIZE <- StackSize, KSTKGAP <- StackGap, KSTACKTOP <- StackTop

Mp == INSTANCE MpConfig WITH
  NCPU <- MaxCpus, Machines <- Tables, machine <- config, pc <- stage, i <- entry, cpuid <- idOf,
  status <- started, c <- aps

Mmu == INSTANCE Tlb WITH Cpus <- Cores, Envs <- CpuEnvs, Frames <- PageFrames

ASSUME CpuPartsAssumption ==
  Segs!DescriptorsAssumption /\ Mp!MpConfigAssumption /\ Mmu!TlbAssumption

-----------------------------------------------------------------------------

segVars == <<machine, gdt, ts, cpuid, lapic, table, seg, tr, esp, pc, c, lock, faulted>>
mpVars ==
  <<config, stage, entry, ismp, ncpu, bootcpu, lapicaddr, idOf, started, apic, lint0, aps>>
mmuVars == <<status, parent, dir, pt, cur, cr3, tlb>>
cpuVars == <<cpuPart, segVars, mpVars, mmuVars>>

SegsIdle ==
  /\ machine = 0 /\ gdt = 0 /\ ts = 0 /\ cpuid = 0 /\ lapic = 0 /\ table = 0 /\ seg = 0 /\ tr = 0
  /\ esp = 0 /\ pc = 0 /\ c = 0 /\ lock = 0 /\ faulted = 0
MpIdle ==
  /\ config = 0 /\ stage = 0 /\ entry = 0 /\ ismp = 0 /\ ncpu = 0 /\ bootcpu = 0 /\ lapicaddr = 0
  /\ idOf = 0 /\ started = 0 /\ apic = 0 /\ lint0 = 0 /\ aps = 0
MmuIdle == status = 0 /\ parent = 0 /\ dir = 0 /\ pt = 0 /\ cur = 0 /\ cr3 = 0 /\ tlb = 0

CpuIdle == cpuPart = "none" /\ SegsIdle /\ MpIdle /\ MmuIdle

CpuInit ==
  \/ cpuPart = "Descriptors" /\ Segs!Init /\ MpIdle /\ MmuIdle
  \/ cpuPart = "MpConfig" /\ Mp!Init /\ SegsIdle /\ MmuIdle
  \/ cpuPart = "Tlb" /\ Mmu!Init /\ SegsIdle /\ MpIdle

CpuNext ==
  \/ cpuPart = "Descriptors" /\ Segs!Next /\ UNCHANGED <<cpuPart, mpVars, mmuVars>>
  \/ cpuPart = "MpConfig" /\ Mp!Next /\ UNCHANGED <<cpuPart, segVars, mmuVars>>
  \/ cpuPart = "Tlb" /\ Mmu!Next /\ UNCHANGED <<cpuPart, segVars, mpVars>>

CpuSpec == CpuInit /\ [][CpuNext]_cpuVars

-----------------------------------------------------------------------------

\* What a CPU has is its own.  mp_init and boot_aps give every one an entry of
\* cpus[], and the devices' interrupts to one of them; their segments, task states
\* and kernel stacks are set up so that no load faults and no two share a stack;
\* none translates by a page directory that was freed, or by an entry that the page
\* tables have lost, as long as nobody edits the address space of an environment
\* that runs on another CPU and nobody kills a zombie.
CpusAreApart ==
  /\ cpuPart = "MpConfig" => Mp!CpusAreApart
  /\ cpuPart = "Descriptors" => Segs!CpusAreApart
  /\ cpuPart = "Tlb" => Mmu!CpusAreApart
================================================================================

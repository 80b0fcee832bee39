-------------------------------- MODULE MpConfig --------------------------------
(***************************************************************************)
(* Finding and starting the CPUs (kern/mpconfig.c, kern/lapic.c): mp_init  *)
(* searches the BIOS tables and fills cpus[], each CPU sets up its local   *)
(* APIC, and the boot processor starts the others one after the other.     *)
(* The kernel uses the number in a CPU's APIC as index into cpus[].        *)
(***************************************************************************)
EXTENDS Integers, Sequences, FiniteSets

CONSTANTS
  NCPU,
  Machines    \* [ebda, places, conf, entries, bsp], see MCParts

VARIABLES
  machine,
  pc,          \* of the boot processor
  i,           \* entry of the table that mp_init is at
  ismp, ncpu, bootcpu, lapicaddr,
  cpuid,       \* index -> cpu_id
  status,      \* index -> cpu_status
  apic,        \* APIC id -> "reset", "init", "running" or "absent"
  lint0,       \* APIC ids whose LINT0 lets the 8259A through
  c            \* of boot_aps

vars == <<machine, pc, i, ismp, ncpu, bootcpu, lapicaddr, cpuid, status, apic, lint0, c>>

\* Entry types.
MPPROC == 0
Skipped == 1 .. 4

\* The tables number the APICs from 0 in their order, as kern/cpu.h:21 takes it
\* ("Local APIC ID; index into cpus[] below"); the boot processor is in the table
\* and among the first NCPU.
ProcsBefore(entries, k) == {x \in 1 .. k - 1 : entries[x].type = MPPROC}

MpConfigAssumption ==
  /\ NCPU \in Nat \ {0}
  /\ \A m \in Machines :
       /\ m.entries \in Seq([type : Nat, apicid : Nat])
       /\ \A k \in DOMAIN m.entries :
            m.entries[k].type = MPPROC => m.entries[k].apicid = Cardinality(ProcsBefore(m.entries, k))
       /\ \E k \in DOMAIN m.entries : m.entries[k] = [type |-> MPPROC, apicid |-> m.bsp]
       /\ m.bsp < NCPU

-----------------------------------------------------------------------------

\* The first place where a floating pointer with a good checksum is found.
Mpsearch ==
  IF machine.ebda THEN machine.places \cap {"ebda", "rom"} ELSE machine.places \cap {"base", "rom"}

\* mpconfig: a table that has the right signature, checksums and version.
Mpconfig == Mpsearch # {} /\ machine.conf = "good"

\* What cpunum answers on a CPU: 0 as long as no LAPIC is mapped.
Cpunum(id) == IF lapicaddr = 0 THEN 0 ELSE id

Begin ==
  /\ pc = "mp_init" /\ i = 0
  /\ IF Mpconfig THEN ismp' = TRUE /\ lapicaddr' = 1 /\ i' = 1 /\ UNCHANGED pc
     ELSE pc' = "lapic_init" /\ UNCHANGED <<i, ismp, lapicaddr>>
  /\ UNCHANGED <<machine, ncpu, bootcpu, cpuid, status, apic, lint0, c>>

Room == ncpu < NCPU

BootIndex(e) == IF e.apicid = machine.bsp THEN ncpu ELSE bootcpu

\* One entry of the table; an unknown type ends the scan.
Entry ==
  /\ pc = "mp_init" /\ i \in 1 .. Len(machine.entries)
  /\ LET e == machine.entries[i] IN
     CASE e.type = MPPROC ->
            /\ bootcpu' = BootIndex(e)
            /\ IF Room THEN cpuid' = [x \in DOMAIN cpuid \cup {ncpu} |-> IF x = ncpu THEN ncpu ELSE cpuid[x]]
                            /\ ncpu' = ncpu + 1
               ELSE UNCHANGED <<cpuid, ncpu>>
            /\ i' = i + 1 /\ UNCHANGED ismp
       [] e.type \in Skipped -> i' = i + 1 /\ UNCHANGED <<bootcpu, cpuid, ncpu, ismp>>
       [] OTHER -> /\ ismp' = FALSE /\ i' = Len(machine.entries) + 1
                   /\ UNCHANGED <<bootcpu, cpuid, ncpu>>
  /\ UNCHANGED <<machine, pc, lapicaddr, status, apic, lint0, c>>

\* No MP after all.
FallBack == ncpu' = 1 /\ lapicaddr' = 0

EndOfTable ==
  /\ pc = "mp_init" /\ i = Len(machine.entries) + 1 /\ i > 0
  /\ status' = [status EXCEPT ![bootcpu] = "STARTED"]
  /\ IF ismp THEN UNCHANGED <<ncpu, lapicaddr>> ELSE FallBack
  /\ pc' = "lapic_init"
  /\ UNCHANGED <<machine, i, ismp, bootcpu, cpuid, apic, lint0, c>>

\* lapic_init on CPU id: LINT0 stays open on the boot processor only.
LapicInit(id) ==
  lint0' = IF lapicaddr = 0 \/ Cpunum(id) = bootcpu THEN lint0 ELSE lint0 \ {id}

BspInit ==
  /\ pc = "lapic_init"
  /\ LapicInit(machine.bsp) /\ pc' = "boot_aps"
  /\ UNCHANGED <<machine, i, ismp, ncpu, bootcpu, lapicaddr, cpuid, status, apic, c>>

\* lapic_startap: INIT resets the CPU with that id, the first STARTUP makes it
\* run and the second is ignored.
Startap ==
  /\ pc = "boot_aps" /\ c < ncpu
  /\ IF c = Cpunum(machine.bsp) THEN c' = c + 1 /\ UNCHANGED <<pc, apic>>
     ELSE /\ apic' = IF cpuid[c] \in DOMAIN apic THEN [apic EXCEPT ![cpuid[c]] = "init"] ELSE apic
          /\ pc' = "wait" /\ UNCHANGED c
  /\ UNCHANGED <<machine, i, ismp, ncpu, bootcpu, lapicaddr, cpuid, status, lint0>>

\* mp_main on the new CPU: lapic_init, then its entry is marked.
MpMain(id) ==
  /\ apic[id] = "init"
  /\ apic' = [apic EXCEPT ![id] = "running"] /\ LapicInit(id)
  /\ status' = [status EXCEPT ![Cpunum(id)] = "STARTED"]
  /\ UNCHANGED <<machine, pc, i, ismp, ncpu, bootcpu, lapicaddr, cpuid, c>>

Started ==
  /\ pc = "wait" /\ status[c] = "STARTED"
  /\ pc' = "boot_aps" /\ c' = c + 1
  /\ UNCHANGED <<machine, i, ismp, ncpu, bootcpu, lapicaddr, cpuid, status, apic, lint0>>

BootDone ==
  /\ pc = "boot_aps" /\ c >= ncpu
  /\ pc' = "running"
  /\ UNCHANGED <<machine, i, ismp, ncpu, bootcpu, lapicaddr, cpuid, status, apic, lint0, c>>

Procs == {machine.entries[k].apicid : k \in {k \in DOMAIN machine.entries : machine.entries[k].type = MPPROC}}

Init ==
  /\ machine \in Machines
  /\ pc = "mp_init" /\ i = 0 /\ ismp = FALSE /\ ncpu = 0 /\ bootcpu = 0 /\ lapicaddr = 0
  /\ cpuid = [x \in 0 .. NCPU - 1 |-> 0] /\ status = [x \in 0 .. NCPU - 1 |-> "UNUSED"]
  /\ apic = [id \in Procs |-> IF id = machine.bsp THEN "running" ELSE "reset"]
  /\ lint0 = Procs /\ c = 0

Next ==
  \/ Begin \/ Entry \/ EndOfTable \/ BspInit \/ Startap \/ Started \/ BootDone
  \/ \E id \in DOMAIN apic : MpMain(id)

Spec == Init /\ [][Next]_vars

-----------------------------------------------------------------------------
(* Properties *)

Running == {id \in DOMAIN apic : apic[id] = "running"}

\* Every CPU that runs has an entry of cpus[] of its own, marked as started
\* and with its APIC id, and the CPUs that found no room stay in reset.
EntriesAreOwn ==
  /\ ncpu <= NCPU /\ DOMAIN cpuid = 0 .. NCPU - 1
  /\ pc = "running" /\ ismp =>
    /\ Running = {id \in DOMAIN apic : id < ncpu}
    /\ \A id \in Running : cpuid[id] = id /\ status[id] = "STARTED"

\* Without a usable table the boot processor runs alone, as CPU 0.
AloneWithoutTable ==
  pc = "running" /\ ~ismp =>
    Running = {machine.bsp} /\ ncpu <= 1 /\ Cpunum(machine.bsp) = 0

\* The 8259A's interrupts reach exactly one of the running CPUs.
OneCpuGetsDevices ==
  pc = "running" => lint0 \cap Running = {machine.bsp}

\* No two CPUs that run take themselves for the same one, or for the boot processor.
CpusAreApart == EntriesAreOwn /\ AloneWithoutTable /\ OneCpuGetsDevices
==============================================================================

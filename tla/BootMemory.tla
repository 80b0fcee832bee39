----------------------------- MODULE BootMemory ------------------------------
(***************************************************************************)
(* entry.S and mem_init: how the JOS kernel gets from physical addresses   *)
(* through the 4 MB that entry.S maps to its own page directory, and the   *)
(* checks it runs on the way (kern/pmap.c of labs 2, 3 and 4, with         *)
(* kern/entry.S and kern/entrypgdir.c).  All of it runs on one CPU; what   *)
(* can go wrong is the order: which memory a step takes, and whether the   *)
(* page tables in force map it.                                            *)
(*                                                                         *)
(* Addresses, physical and virtual, are page numbers.  The page tables of  *)
(* kern_pgdir are the sequence of the mappings made in them, where a later *)
(* one covers an earlier one.                                              *)
(***************************************************************************)
EXTENDS Naturals, FiniteSets, Sequences, SequencesExt

CONSTANTS
  Machines,   \* the bytes of the CMOS that tell the memory sizes
  KernelEnd,  \* page number of ROUNDUP(end, PGSIZE)
  Bss,        \* first page of the per-CPU stacks (lab 4) or of bootstack
  Labs        \* which of the labs 2, 3, 4

BootMemoryAssumption ==
  /\ KernelEnd \in 256 .. 1023 /\ Bss \in 256 .. KernelEnd - 64 /\ Labs \subseteq {2, 3, 4}
  /\ \A m \in Machines : m \in [{21, 22, 23, 24, 52, 53} -> 0 .. 255] /\ m[21] + 256 * m[22] \in {639, 640}

VARIABLES
  lab, machine,
  step,      \* the next step of entry.S and of mem_init
  nextfree,  \* of boot_alloc
  npages, basepages,
  at,        \* the pages of kern_pgdir, pages and envs
  mem,       \* the page allocator and kern_pgdir, see Memory
  cr3,       \* which page directory is in force, if any
  touched,   \* history: physical pages written through KADDR before lcr3
  base,      \* of mmio_map_region
  failed     \* an assertion of the checks has failed

vars == <<lab, machine, step, nextfree, npages, basepages, at, mem, cr3, touched, base, failed>>

-----------------------------------------------------------------------------
(* Layout (inc/memlayout.h), in pages *)

KERNBASE == 983040     \* 0xF0000000
KSTACKTOP == KERNBASE
MMIOLIM == KSTACKTOP - 1024
MMIOBASE == MMIOLIM - 1024
UVPT == MMIOBASE - 1024
UPAGES == UVPT - 1024
UENVS == UPAGES - 1024
IOPHYSMEM == 160
EXTPHYSMEM == 256
MPENTRY == 7
KSTKSIZE == 8
KSTKGAP == 8
NCPU == 8
PDX(va) == va \div 1024

PagesFor(bytes) == (bytes + 4095) \div 4096
PageInfos == PagesFor(npages * 8)
\* 1024 struct Env of 124 bytes (96 in lab 3).
Envs == CASE lab = 4 -> 31 [] lab = 3 -> 24 [] OTHER -> 0

\* entry_pgdir and entry_pgtable: the first 4 MB, at 0 read-only and at KERNBASE.
EntryPgdir(va) == CASE va < 1024 -> [pa |-> va, perm |-> {"P"}]
                    [] va \in KERNBASE .. KERNBASE + 1023 -> [pa |-> va - KERNBASE, perm |-> {"P", "W"}]
                    [] OTHER -> [pa |-> 0, perm |-> {}]

-----------------------------------------------------------------------------
(* The allocator and the page tables, as functions on                      *)
(* [free, ref, dir, maps]: the free list, pp_ref of all pages, the page    *)
(* tables of kern_pgdir by directory index, the mappings.                  *)

NoTable == 0
NoMemory == [free |-> <<>>, ref |-> <<>>, dir |-> <<>>, maps |-> <<>>]

\* page_alloc, which needs a page on the list.
PageTake(m) == [m EXCEPT !.free = Tail(@)]
\* page_free.
PageGive(m, p) == [m EXCEPT !.free = <<p>> \o @]

\* pgdir_walk with create, for directory entry d.
WithTable(m, d) ==
  IF m.dir[d] # NoTable THEN m
  ELSE [m EXCEPT !.dir[d] = Head(m.free), !.ref[Head(m.free)] = @ + 1, !.free = Tail(@)]

\* boot_map_region.
MapRegion(m, va, n, pa, perm) ==
  LET dirs == [i \in 1 .. PDX(va + n - 1) - PDX(va) + 1 |-> PDX(va) + i - 1]
      t == FoldLeft(WithTable, m, dirs) IN
  [t EXCEPT !.maps = Append(@, [va |-> va, n |-> n, pa |-> pa, perm |-> perm \cup {"P"}])]

\* The entry of va: that of the last mapping over it, if its page table exists.
Pte(m, va) ==
  LET is == {i \in DOMAIN m.maps : va \in m.maps[i].va .. m.maps[i].va + m.maps[i].n - 1} IN
  IF is = {} \/ m.dir[PDX(va)] = NoTable THEN [pa |-> 0, perm |-> {}]
  ELSE LET r == m.maps[CHOOSE i \in is : \A j \in is : j <= i] IN
       [pa |-> r.pa + va - r.va, perm |-> r.perm]

Unmapped == 1048576    \* ~0
CheckVa2pa(m, va) == IF "P" \in Pte(m, va).perm THEN Pte(m, va).pa ELSE Unmapped

\* page_decref.
PageDecref(m, p) ==
  LET l == [m EXCEPT !.ref[p] = @ - 1] IN IF l.ref[p] = 0 THEN PageGive(l, p) ELSE l

\* page_remove of a page that is mapped.
PageRemove(m, va) ==
  [PageDecref(m, Pte(m, va).pa) EXCEPT !.maps = Append(@, [va |-> va, n |-> 1, pa |-> 0, perm |-> {}])]

\* page_insert, or m itself if there is no page table and no page for one.
PageInsert(m, p, va, perm) ==
  IF m.dir[PDX(va)] = NoTable /\ m.free = <<>> THEN m
  ELSE LET t == WithTable(m, PDX(va))
           r == [t EXCEPT !.ref[p] = @ + 1]
           o == IF "P" \in Pte(r, va).perm THEN PageRemove(r, va) ELSE r IN
       [o EXCEPT !.maps = Append(@, [va |-> va, n |-> 1, pa |-> p, perm |-> perm \cup {"P"}])]

\* kern_pgdir[d] = 0, and the reference count of its table as well.
DropTable(m, d) ==
  [m EXCEPT !.ref[m.dir[d]] = 0, !.dir[d] = NoTable,
            !.maps = SelectSeq(@, LAMBDA r : PDX(r.va) # d)]

Clear(m, va) == [m EXCEPT !.maps = Append(@, [va |-> va, n |-> 1, pa |-> 0, perm |-> {}])]

-----------------------------------------------------------------------------
(* mem_init *)

Init ==
  /\ lab \in Labs /\ machine \in Machines
  /\ step = "paging" /\ nextfree = KernelEnd
  /\ npages = 0 /\ basepages = 0 /\ at = [dir |-> 0, pages |-> 0, envs |-> 0]
  /\ mem = NoMemory /\ cr3 = "none" /\ touched = {}
  /\ base = MMIOBASE /\ failed = FALSE

Then(this, next) == step = this /\ step' = next

\* entry.S, at the address where the boot loader put it, turns paging on.
EnablePaging ==
  /\ Then("paging", "relocate")
  /\ cr3' = "entry_pgdir"
  /\ UNCHANGED <<lab, machine, nextfree, npages, basepages, at, mem, touched, base, failed>>

\* It jumps up to KERNBASE, takes the boot stack and calls i386_init, which
\* calls mem_init.
Relocate ==
  /\ Then("relocate", "detect")
  /\ UNCHANGED <<lab, machine, nextfree, npages, basepages, at, mem, cr3, touched, base, failed>>

\* The page that the next instruction is fetched from: the kernel is loaded at
\* EXTPHYSMEM and linked at KERNBASE + EXTPHYSMEM.
CodeVa == IF step \in {"paging", "relocate"} THEN EXTPHYSMEM ELSE KERNBASE + EXTPHYSMEM

\* nvram_read: two bytes of the CMOS, a number of KB.
Nvram(r) == machine[r] + 256 * machine[r + 1]
NVRAM_BASELO == 21
NVRAM_EXTLO == 23
NVRAM_EXT16LO == 52

\* i386_detect_memory.
DetectMemory ==
  LET basemem == Nvram(NVRAM_BASELO)
      extmem == Nvram(NVRAM_EXTLO)
      ext16mem == Nvram(NVRAM_EXT16LO) * 64
      total == CASE ext16mem > 0 -> 16384 + ext16mem
                 [] ext16mem = 0 /\ extmem > 0 -> 1024 + extmem
                 [] OTHER -> basemem IN
  /\ Then("detect", "alloc")
  /\ npages' = total \div 4 /\ basepages' = basemem \div 4
  /\ UNCHANGED <<lab, machine, nextfree, at, mem, cr3, touched, base, failed>>

\* boot_alloc of the page directory, of pages and (from lab 3 on) of envs, all
\* of which are cleared; the page directory maps itself at UVPT.
BootAlloc ==
  LET pages == KernelEnd + 1
      envs == pages + PageInfos IN
  /\ Then("alloc", "page_init")
  /\ at' = [dir |-> KernelEnd, pages |-> pages, envs |-> envs]
  /\ nextfree' = envs + Envs
  /\ touched' = touched \cup (KernelEnd .. nextfree' - 1)
  /\ UNCHANGED <<lab, machine, npages, basepages, mem, cr3, base, failed>>

\* page_init of labs 2 and 3: in use are the page of the BIOS, the hole, and what
\* follows it up to where boot_alloc stands.
InUse == {0} \cup (IOPHYSMEM .. nextfree - 1)

\* Lab 4 leaves out the page at MPENTRY_PADDR as well.
LeftOut == InUse \cup (IF lab = 4 THEN {MPENTRY} ELSE {})

\* Mutant of PageInit: the hole ends where the kernel begins.
Mut_PageInit ==
  LET Usable(p) == p \notin LeftOut \ (EXTPHYSMEM .. nextfree) /\ (p < basepages \/ p >= EXTPHYSMEM) IN
  /\ Then("page_init", "check_free_low")
  /\ mem' = [free |-> Reverse(SelectSeq([i \in 1 .. npages - 1 |-> i], Usable)),
             ref |-> [p \in 0 .. npages - 1 |-> IF Usable(p) THEN 0 ELSE 1],
             dir |-> [d \in 0..1023 |-> IF d = PDX(UVPT) THEN at.dir ELSE NoTable],
             maps |-> <<>>]
  /\ UNCHANGED <<lab, machine, nextfree, npages, basepages, at, cr3, touched, base, failed>>

\* The rest: pages are pushed in ascending order.
PageInit ==
  LET Usable(p) == p \notin LeftOut /\ (p < basepages \/ p >= nextfree) IN
  /\ Then("page_init", "check_free_low")
  /\ mem' = [free |-> Reverse(SelectSeq([i \in 1 .. npages - 1 |-> i], Usable)),
             ref |-> [p \in 0 .. npages - 1 |-> IF p \in LeftOut THEN 1 ELSE 0],
             dir |-> [d \in 0..1023 |-> IF d = PDX(UVPT) THEN at.dir ELSE NoTable],
             maps |-> <<>>]
  /\ UNCHANGED <<lab, machine, nextfree, npages, basepages, at, cr3, touched, base, failed>>

\* What check_page_free_list asserts.
FreeListOk(m) ==
  /\ \A i \in DOMAIN m.free :
       /\ m.free[i] < npages /\ m.free[i] \notin {0, IOPHYSMEM, EXTPHYSMEM - 1, EXTPHYSMEM}
       /\ m.free[i] < EXTPHYSMEM \/ m.free[i] >= nextfree
       /\ lab = 4 => m.free[i] # MPENTRY
  /\ \E i \in DOMAIN m.free : m.free[i] < EXTPHYSMEM
  /\ \E i \in DOMAIN m.free : m.free[i] >= EXTPHYSMEM

\* check_page_free_list(1): pages of the first 4 MB move to the front, and are
\* filled with garbage.
CheckFreeLow ==
  LET Low(p) == PDX(p) < 1
      High(p) == ~Low(p) IN
  /\ Then("check_free_low", "check_alloc")
  /\ mem' = [mem EXCEPT !.free = SelectSeq(@, Low) \o SelectSeq(@, High)]
  /\ touched' = touched \cup {p \in Range(mem.free) : Low(p)}
  /\ failed' = (failed \/ ~FreeListOk(mem'))
  /\ UNCHANGED <<lab, machine, nextfree, npages, basepages, at, cr3, base>>

\* check_page_alloc: takes three pages and the list away, frees and takes the
\* three again, which turns them around, writes the first, and puts all back.
CheckPageAlloc ==
  LET f == mem.free
      m1 == PageGive(PageGive(PageGive([mem EXCEPT !.free = <<>>], f[1]), f[2]), f[3])
      pp == m1.free
      m2 == PageGive(PageGive(PageGive([mem EXCEPT !.free = SubSeq(f, 4, Len(f))], pp[1]), pp[2]), pp[3]) IN
  /\ Then("check_alloc", "check_page")
  /\ mem' = m2
  /\ touched' = touched \cup {pp[1]}
  /\ failed' = (failed \/ Cardinality({f[1], f[2], f[3]}) # 3 \/ Len(m2.free) # Len(f))
  /\ UNCHANGED <<lab, machine, nextfree, npages, basepages, at, cr3, base>>

(***************************************************************************)
(* check_page: a script of page_insert and page_remove on three pages, at  *)
(* the addresses 0 and PGSIZE.  m1, m2, ... are the states it goes through *)
(* and ok is the conjunction of its assertions.                            *)
(***************************************************************************)

\* Without memory for a page table nothing is inserted; p0 becomes the table, and
\* p2 and then p1 are mapped at PGSIZE, with more permissions and with fewer.
InsertScript(m1, p0, p1, p2) ==
  LET m2 == PageGive(m1, p0)
      m3 == PageInsert(m2, p1, 0, {"W"})
      m4 == PageInsert(m3, p2, 1, {"W"})
      m5 == PageInsert(m4, p2, 1, {"W"})
      m6 == PageInsert(m5, p2, 1, {"W", "U"})
      m7 == PageInsert(m6, p2, 1, {"W"})
      m8 == PageInsert(m7, p1, 1, {"W"}) IN
  [mem |-> m8,
   ok |-> /\ CheckVa2pa(m1, 0) = Unmapped /\ PageInsert(m1, p1, 0, {"W"}) = m1
          /\ m3.dir[0] = p0 /\ CheckVa2pa(m3, 0) = p1 /\ m3.ref[p1] = 1 /\ m3.ref[p0] = 1
          /\ \A m \in {m4, m5} : CheckVa2pa(m, 1) = p2 /\ m.ref[p2] = 1 /\ m.free = <<>>
          /\ CheckVa2pa(m6, 1) = p2 /\ m6.ref[p2] = 1 /\ "U" \in Pte(m6, 1).perm
          /\ "W" \in Pte(m7, 1).perm /\ "U" \notin Pte(m7, 1).perm
          /\ PageInsert(m7, p0, 1024, {"W"}) = m7
          /\ CheckVa2pa(m8, 0) = p1 /\ CheckVa2pa(m8, 1) = p1 /\ m8.ref[p1] = 2 /\ m8.ref[p2] = 0
          /\ m8.free = <<p2>> /\ "U" \notin Pte(m8, 1).perm]

\* p1 is removed from 0, inserted again where it is, and removed there, which frees it.
RemoveScript(m8, p0, p1, p2) ==
  LET m9 == PageRemove(PageTake(m8), 0)
      m10 == PageInsert(m9, p1, 1, {})
      m11 == PageRemove(m10, 1) IN
  [mem |-> m11,
   ok |-> /\ CheckVa2pa(m9, 0) = Unmapped /\ CheckVa2pa(m9, 1) = p1
          /\ m9.ref[p1] = 1 /\ m9.ref[p2] = 0
          /\ m10.ref[p1] # 0
          /\ CheckVa2pa(m11, 0) = Unmapped /\ CheckVa2pa(m11, 1) = Unmapped
          /\ m11.ref[p1] = 0 /\ m11.ref[p2] = 0 /\ m11.free = <<p1>>
          /\ m11.dir[0] = p0 /\ m11.ref[p0] = 1]

\* The table p0 is taken from the directory by hand and used twice more: a page
\* that becomes a page table is cleared.
TableScript(m11, p0) ==
  LET m12 == DropTable(PageTake(m11), 0)
      m13 == DropTable(WithTable(PageGive(m12, p0), 1), 1)
      m14 == WithTable(PageGive(m13, p0), 0) IN
  [mem |-> DropTable(m14, 0), ok |-> \A va \in 0..1023 : "P" \notin Pte(m14, va).perm]

CheckPage ==
  LET f == mem.free   p0 == f[1]   p1 == f[2]   p2 == f[3]
      inserted == InsertScript([mem EXCEPT !.free = <<>>], p0, p1, p2)
      removed == RemoveScript(inserted.mem, p0, p1, p2)
      taken == TableScript(removed.mem, p0)
      asserts == Cardinality({p0, p1, p2}) = 3 /\ inserted.ok /\ removed.ok /\ taken.ok
  IN
  /\ Then("check_page", IF lab = 4 THEN "check_mmio" ELSE "map_pages")
  /\ mem' = PageGive(PageGive(PageGive([taken.mem EXCEPT !.free = SubSeq(f, 4, Len(f))], p0), p1), p2)
  /\ touched' = touched \cup {p0}
  /\ failed' = (failed \/ ~asserts)
  /\ UNCHANGED <<lab, machine, nextfree, npages, basepages, at, cr3, base>>

\* mmio_map_region: the next n pages of the MMIO region, if there are as many.
MmioMapRegion(m, n, pa) ==
  /\ base + n <= MMIOLIM
  /\ mem' = MapRegion(m, base, n, pa, {"W", "PCD", "PWT"})
  /\ base' = base + n

\* The end of check_page: mmio_map_region of 4097 and of 4096 bytes, whose
\* entries it then clears; the addresses are not used again.
CheckMmio ==
  LET a == MapRegion(mem, base, 2, 0, {"W", "PCD", "PWT"})
      b == MapRegion(a, base + 2, 1, 0, {"W", "PCD", "PWT"})
      c == Clear(Clear(Clear(b, base), base + 1), base + 2) IN
  /\ Then("check_mmio", "map_pages")
  /\ base' = base + 3
  /\ mem' = c
  /\ touched' = touched \cup {b.dir[PDX(base)]}
  /\ failed' = (failed \/ ~( /\ base >= MMIOBASE /\ base + 3 < MMIOLIM
                             /\ CheckVa2pa(b, base) = 0 /\ CheckVa2pa(b, base + 1) = 1
                             /\ CheckVa2pa(b, base + 2) = 0 /\ CheckVa2pa(b, base + 3) = Unmapped
                             /\ "U" \notin Pte(b, base).perm))
  /\ UNCHANGED <<lab, machine, nextfree, npages, basepages, at, cr3>>

-----------------------------------------------------------------------------
(* The static mappings *)

\* One boot_map_region: a new page table is cleared, and written.
Map(this, next, va, n, pa, perm) ==
  /\ Then(this, next)
  /\ mem' = IF n = 0 THEN mem ELSE MapRegion(mem, va, n, pa, perm)
  /\ touched' = touched \cup {mem'.dir[d] : d \in {e \in 0..1023 : mem'.dir[e] # mem.dir[e]}}
  /\ UNCHANGED <<lab, machine, nextfree, npages, basepages, at, cr3, base, failed>>

MapPages == Map("map_pages", "map_envs", UPAGES, PageInfos, at.pages, {"U"})

MapEnvs == Map("map_envs", "map_stack", UENVS, Envs, at.envs, {"U"})

\* Labs 2 and 3: the boot stack.
MapStack ==
  Map("map_stack", "map_kernel", KSTACKTOP - KSTKSIZE, IF lab = 4 THEN 0 ELSE KSTKSIZE, Bss, {"W"})

MapKernel == Map("map_kernel", "map_cpus", KERNBASE, 65536, 0, {"W"})

\* Where the stack of CPU i begins.
StackVa(i) == KSTACKTOP - KSTKSIZE - i * (KSTKSIZE + KSTKGAP)

\* mem_init_mp: lab 4 maps a stack for each CPU, all of them in one page table.
MemInitMp ==
  LET First == MapRegion(mem, StackVa(0), KSTKSIZE, Bss, {"W"})
      rest == [i \in 1 .. NCPU - 1 |->
                 [va |-> StackVa(i), n |-> KSTKSIZE, pa |-> Bss + i * KSTKSIZE, perm |-> {"W", "P"}]] IN
  /\ Then("map_cpus", "check_pgdir")
  /\ mem' = IF lab = 4 THEN [First EXCEPT !.maps = @ \o rest] ELSE mem
  /\ touched' = touched \cup {First.dir[PDX(StackVa(0))]}
  /\ UNCHANGED <<lab, machine, nextfree, npages, basepages, at, cr3, base, failed>>

Maps(va, n, pa) == \A i \in 0 .. n - 1 : CheckVa2pa(mem, va + i) = pa + i
NotMapped(va, n) == \A i \in 0 .. n - 1 : CheckVa2pa(mem, va + i) = Unmapped

\* The stack of labs 2 and 3 in check_kern_pgdir.
StackOk == Maps(KSTACKTOP - KSTKSIZE, KSTKSIZE, Bss) /\ NotMapped(KSTACKTOP - 1024, 1)

\* The stacks of lab 4, each with a gap below it.
StacksOk ==
  \A n \in 0 .. NCPU - 1 :
    LET low == KSTACKTOP - (KSTKSIZE + KSTKGAP) * (n + 1) IN
    Maps(low + KSTKGAP, KSTKSIZE, Bss + n * KSTKSIZE) /\ NotMapped(low, KSTKGAP)

\* check_kern_pgdir.
CheckKernPgdir ==
  LET present == {PDX(UVPT), PDX(KSTACKTOP - 1), PDX(UPAGES)}
                 \cup (IF lab > 2 THEN {PDX(UENVS)} ELSE {})
                 \cup (IF lab > 3 THEN {PDX(MMIOBASE)} ELSE {}) IN
  /\ Then("check_pgdir", "lcr3")
  /\ failed' = (failed \/ ~( /\ Maps(UPAGES, PageInfos, at.pages)
                             /\ Maps(UENVS, Envs, at.envs)
                             /\ \A i \in 0 .. npages - 1 : CheckVa2pa(mem, KERNBASE + i) = i
                             /\ IF lab = 4 THEN StacksOk ELSE StackOk
                             /\ \A d \in 0..1023 :
                                  mem.dir[d] # NoTable <=> d \in present \/ d >= PDX(KERNBASE)))
  /\ UNCHANGED <<lab, machine, nextfree, npages, basepages, at, mem, cr3, touched, base>>

\* lcr3(PADDR(kern_pgdir)).
Lcr3 ==
  /\ Then("lcr3", "check_free")
  /\ cr3' = "kern_pgdir"
  /\ UNCHANGED <<lab, machine, nextfree, npages, basepages, at, mem, touched, base, failed>>

\* check_page_free_list(0).
CheckFree ==
  /\ Then("check_free", "check_installed")
  /\ failed' = (failed \/ ~FreeListOk(mem))
  /\ UNCHANGED <<lab, machine, nextfree, npages, basepages, at, mem, cr3, touched, base>>

\* check_page_installed_pgdir: two pages in turn at PGSIZE.
CheckInstalled ==
  LET f == mem.free   p0 == f[1]   p1 == f[2]   p2 == f[3]
      m1 == PageInsert([mem EXCEPT !.free = <<p0>> \o SubSeq(f, 4, Len(f))], p1, 1, {"W"})
      m2 == PageInsert(m1, p2, 1, {"W"})
      m3 == PageRemove(m2, 1)
      m4 == PageGive(DropTable(m3, 0), p0) IN
  /\ Then("check_installed", "boot")
  /\ mem' = m4
  /\ failed' = (failed \/ ~( /\ m1.ref[p1] = 1 /\ CheckVa2pa(m1, 1) = p1
                             /\ m2.ref[p2] = 1 /\ m2.ref[p1] = 0 /\ CheckVa2pa(m2, 1) = p2
                             /\ m3.ref[p2] = 0 /\ m3.dir[0] = p0 /\ m3.ref[p0] = 1))
  /\ UNCHANGED <<lab, machine, nextfree, npages, basepages, at, cr3, touched, base>>

\* lapic_init, of lab 4, maps the page of the local APIC.
LapicPage == 1043968   \* 0xfee00000
LapicInit ==
  /\ Then("boot", "done") /\ lab = 4
  /\ MmioMapRegion(mem, 1, LapicPage)
  /\ UNCHANGED <<lab, machine, nextfree, npages, basepages, at, cr3, touched, failed>>

Next ==
  \/ EnablePaging \/ Relocate \/ DetectMemory \/ BootAlloc \/ PageInit \/ CheckFreeLow \/ CheckPageAlloc \/ CheckPage
  \/ CheckMmio \/ MapPages \/ MapEnvs \/ MapStack \/ MapKernel \/ MemInitMp
  \/ CheckKernPgdir \/ Lcr3 \/ CheckFree \/ CheckInstalled \/ LapicInit

Spec == Init /\ [][Next]_vars

-----------------------------------------------------------------------------
(* Properties *)

TypeOK ==
  /\ lab \in Labs /\ machine \in Machines
  /\ cr3 \in {"none", "entry_pgdir", "kern_pgdir"} /\ failed \in BOOLEAN
  /\ Range(mem.free) \cup Range(mem.dir) \subseteq 0 .. npages
  /\ base \in MMIOBASE .. MMIOLIM

\* No assertion of the checks fails, from 3 MB of memory on, that is, with room for the
\* kernel, its arrays and the page tables it needs.
NoAssertFails == ~failed

\* Before lcr3 the kernel only writes memory that entry_pgdir maps, although
\* page_init leaves the highest pages at the head of the list.
TouchedIsMapped ==
  \A p \in touched :
    LET e == EntryPgdir(KERNBASE + p) IN e.pa = p /\ "W" \in e.perm

\* From page_init on, a page is either free, once, or in use: by the BIOS, by
\* the kernel and what boot_alloc gave it, or as a page table (page 159 may be
\* neither if the BIOS keeps it).
PagesAccountedFor ==
  mem # NoMemory =>
    LET tables == Range(mem.dir) \ {NoTable}
        free == Range(mem.free)
        inUse == {p \in 0 .. npages - 1 : mem.ref[p] > 0} IN
    /\ Cardinality(free) = Len(mem.free)
    /\ free \cap inUse = {} /\ LeftOut \subseteq inUse
    /\ inUse \cup {at.dir} = LeftOut \cup tables
    /\ (0 .. npages - 1) \ (free \cup inUse) \subseteq {basepages}

\* What address va is translated to.
Translated(va) == CASE cr3 = "none" -> va
                    [] cr3 = "entry_pgdir" -> EntryPgdir(va).pa
                    [] OTHER -> CheckVa2pa(mem, va)

\* The next instruction is always fetched from where the boot loader put it, also
\* between paging and the jump to KERNBASE, when the kernel runs at a low address.
CodeIsThere == Translated(CodeVa) = EXTPHYSMEM

\* lcr3 changes nothing for the kernel that executes it: its code, data and
\* stack, all in the first 4 MB, are where they were.
SwitchIsSafe ==
  step = "lcr3" =>
     \A p \in 0 .. 1023 : /\ CheckVa2pa(mem, KERNBASE + p) = EntryPgdir(KERNBASE + p).pa
                          /\ "W" \in Pte(mem, KERNBASE + p).perm

\* Above UTOP user programs can read the page tables, pages and envs and write
\* nothing, and below every kernel stack a page is left unmapped.
UserCannotWrite ==
  step \in {"boot", "done"} =>
    /\ \A r \in Range(mem.maps) : "U" \in r.perm => "W" \notin r.perm
    /\ \A r \in Range(mem.maps) :
         r.va \in KSTACKTOP - 1024 .. KSTACKTOP - 1 => CheckVa2pa(mem, r.va - 1) = Unmapped
==============================================================================

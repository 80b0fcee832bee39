-------------------------------- MODULE LoadIcode --------------------------------
(***************************************************************************)
(* Loading a program into a new environment (kern/env.c): env_create,      *)
(* load_icode and region_alloc, over pages with their old contents and     *)
(* page tables that need pages too.  A cell that was copied from the       *)
(* binary holds its offset in it.                                          *)
(***************************************************************************)
EXTENDS Integers, Sequences, FiniteSets

CONSTANTS
  PGSIZE,      \* cells of a page
  NPTENTRIES,  \* pages that one page table maps
  UserPages,   \* pages of the user address space; the last is the stack's
  Frames,      \* physical pages
  FreeCounts,  \* how many of them are free
  Binaries     \* [elf, entry, segs: <<[load, va, offset, filesz, memsz]>>]

VARIABLES
  pc,
  binary,
  free,        \* page_free_list
  tables,      \* directory entries of the environment that have a page table
  pagemap,     \* user page -> physical page
  mem,         \* physical page -> contents
  cr3,         \* "kern_pgdir" or "env_pgdir"
  ph,          \* program header, Len(segs) + 1 for the stack
  curva,       \* page number that region_alloc is at
  eip

vars == <<pc, binary, free, tables, pagemap, mem, cr3, ph, curva, eip>>

Unmapped == 0
Junk == -1
Zero == -2

-----------------------------------------------------------------------------

StackPage == UserPages - 1
OnStack == ph > Len(binary.segs)

RoundDown(va) == va \div PGSIZE

\* The page after the last of [va, va + len).
EndPage(va, len) == (va + len + PGSIZE - 1) \div PGSIZE

RegionEnd == IF OnStack THEN StackPage + 1 ELSE EndPage(binary.segs[ph].va, binary.segs[ph].memsz)

\* Every segment has pages of its own, below the stack's: user/user.ld:24 starts
\* the second one on a new page, and the third at 0x200000; none is empty.
Span(seg) == RoundDown(seg.va) .. EndPage(seg.va, seg.memsz) - 1

LoadIcodeAssumption ==
  /\ PGSIZE \in Nat \ {0} /\ NPTENTRIES \in Nat \ {0}
  /\ UserPages \in Nat \ {0} /\ Frames \in Nat /\ FreeCounts \subseteq 0 .. Frames
  /\ \A b \in Binaries :
       /\ b.elf \in BOOLEAN
       /\ b.segs \in Seq([load : BOOLEAN, va : Nat, offset : Nat, filesz : Nat, memsz : Nat])
       /\ \A j \in DOMAIN b.segs : b.segs[j].load =>
            /\ b.segs[j].memsz > 0 /\ EndPage(b.segs[j].va, b.segs[j].memsz) <= StackPage
            /\ \A k \in DOMAIN b.segs \ {j} :
                 b.segs[k].load => Span(b.segs[j]) \cap Span(b.segs[k]) = {}

Panic == pc' = "panic" /\ UNCHANGED <<binary, free, tables, pagemap, mem, cr3, ph, curva, eip>>

\* Go on with header k: skip what is not loadable, panic on a bad one.
NextHeader(k) ==
  LET loadable == {j \in k .. Len(binary.segs) : binary.segs[j].load}
      j == IF loadable = {} THEN Len(binary.segs) + 1
           ELSE CHOOSE x \in loadable : \A y \in loadable : x <= y IN
  /\ ph' = j
  /\ IF j > Len(binary.segs) THEN pc' = "region_alloc" /\ curva' = StackPage
     ELSE IF binary.segs[j].filesz > binary.segs[j].memsz THEN pc' = "panic" /\ UNCHANGED curva
     ELSE pc' = "region_alloc" /\ curva' = RoundDown(binary.segs[j].va)

\* load_icode up to the first segment, with the environment's directory loaded.
Begin ==
  /\ pc = "load_icode"
  /\ IF binary.elf
     THEN /\ NextHeader(1) /\ cr3' = "env_pgdir"
          /\ eip' = IF ph' > Len(binary.segs) THEN binary.entry ELSE eip
          /\ UNCHANGED <<binary, free, tables, pagemap, mem>>
     ELSE Panic

\* One page of region_alloc: page_alloc, then page_insert, whose failure to get
\* a page table is not looked at: the page is lost and the address unmapped.
RegionPage ==
  /\ pc = "region_alloc" /\ curva < RegionEnd
  /\ IF free = <<>> THEN Panic
     ELSE
       LET p == Head(free)
           left == Tail(free)
           pde == curva \div NPTENTRIES
           need == pde \notin tables IN
       /\ \/ ~need /\ free' = left /\ tables' = tables /\ pagemap' = [pagemap EXCEPT ![curva] = p]
          \/ need /\ left = <<>> /\ free' = left /\ UNCHANGED <<tables, pagemap>>
          \/ need /\ left # <<>> /\ free' = Tail(left) /\ tables' = tables \cup {pde}
                  /\ pagemap' = [pagemap EXCEPT ![curva] = p]
       /\ curva' = curva + 1
       /\ UNCHANGED <<pc, binary, mem, cr3, ph, eip>>

\* What memcpy and memset leave at va.
Contents(seg, va, old) ==
  IF va \in seg.va .. seg.va + seg.filesz - 1 THEN seg.offset + (va - seg.va)
  ELSE IF va \in seg.va + seg.filesz .. seg.va + seg.memsz - 1 THEN Zero ELSE old

\* memcpy and memset through the environment's directory; a page that was not
\* mapped faults in the kernel, which panics.
CopySegment ==
  /\ pc = "region_alloc" /\ curva >= RegionEnd /\ ~OnStack
  /\ LET seg == binary.segs[ph]
         pages == {va \div PGSIZE : va \in seg.va .. seg.va + seg.memsz - 1} IN
     IF \E v \in pages : pagemap[v] = Unmapped THEN Panic
     ELSE /\ mem' = [p \in DOMAIN mem |->
                      IF \E v \in pages : pagemap[v] = p
                      THEN LET v == CHOOSE v \in pages : pagemap[v] = p IN
                           [i \in 0 .. PGSIZE - 1 |-> Contents(seg, v * PGSIZE + i, mem[p][i])]
                      ELSE mem[p]]
          /\ NextHeader(ph + 1)
          /\ eip' = IF ph' > Len(binary.segs) THEN binary.entry ELSE eip
          /\ UNCHANGED <<binary, free, tables, pagemap, cr3>>

\* The stack page is mapped: back to the kernel's directory.
Finish ==
  /\ pc = "region_alloc" /\ curva >= RegionEnd /\ OnStack
  /\ cr3' = "kern_pgdir" /\ pc' = "created"
  /\ UNCHANGED <<binary, free, tables, pagemap, mem, ph, curva, eip>>

Init ==
  /\ binary \in Binaries
  /\ \E k \in FreeCounts : free = [j \in 1 .. k |-> j]
  /\ pc = "load_icode" /\ tables = {} /\ pagemap = [v \in 0 .. UserPages - 1 |-> Unmapped]
  /\ mem = [p \in 1 .. Frames |-> [i \in 0 .. PGSIZE - 1 |-> Junk]]
  /\ cr3 = "kern_pgdir" /\ ph = 0 /\ curva = 0 /\ eip = Junk

Next == Begin \/ RegionPage \/ CopySegment \/ Finish

Spec == Init /\ [][Next]_vars

-----------------------------------------------------------------------------
(* Properties *)

Loads == {binary.segs[j] : j \in {j \in DOMAIN binary.segs : binary.segs[j].load}}
Touched == {StackPage} \cup UNION {{va \div PGSIZE : va \in s.va .. s.va + s.memsz - 1} : s \in Loads}

\* A created environment holds its program as linked, bss zeroed although
\* region_alloc gives out pages with old contents; nothing else is mapped, and
\* no two of its pages share a frame.  The stack page may stay unmapped when
\* its page table could not be allocated.
ProgramAsLinked ==
  pc = "created" =>
    /\ eip = binary.entry /\ cr3 = "kern_pgdir"
    /\ \A s \in Loads : \A k \in 0 .. s.memsz - 1 :
         LET va == s.va + k IN
         /\ pagemap[va \div PGSIZE] # Unmapped
         /\ mem[pagemap[va \div PGSIZE]][va % PGSIZE] = IF k < s.filesz THEN s.offset + k ELSE Zero
    /\ {v \in DOMAIN pagemap : pagemap[v] # Unmapped} \cup {StackPage} = Touched
    /\ \A v, w \in DOMAIN pagemap :
         pagemap[v] # Unmapped /\ pagemap[w] = pagemap[v] => v = w
    /\ \A v \in DOMAIN pagemap : \A j \in DOMAIN free : free[j] # pagemap[v]

\* A sound program is refused only when the pages run out: those that it
\* touches and those of their page tables.
PanicsOnlyForMemory ==
  pc = "panic" =>
    \/ ~binary.elf \/ \E s \in Loads : s.filesz > s.memsz
    \/ free = <<>>

\* What env_create hands to the scheduler is the program, or there was no memory.
ImagesAsLinked == ProgramAsLinked /\ PanicsOnlyForMemory
==============================================================================

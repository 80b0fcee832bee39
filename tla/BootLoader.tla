------------------------------- MODULE BootLoader -------------------------------
(***************************************************************************)
(* The boot loader (boot/boot.S, boot/main.c): enable address line A20,    *)
(* read the kernel's ELF header and segments from the disk, enter the      *)
(* kernel, which clears its bss.  Memory and disk are arrays of cells; a   *)
(* cell that came from the kernel's file holds its offset in that file.    *)
(***************************************************************************)
EXTENDS Integers, Sequences

CONSTANTS
  SECTSIZE,    \* cells of a sector
  MemCells,    \* cells of physical memory
  A20,         \* the address that line A20 stands for
  ELFHDR,      \* where the header goes, of HdrSectors sectors
  HdrSectors,
  BootCells,   \* the cells of the boot loader itself
  Images       \* kernels: [elf, segs: <<[pa, offset, filesz, memsz]>>, edata, end]

VARIABLES
  pc,          \* of the loader
  image,       \* the kernel on the disk
  mem,
  line,        \* A20 is let through
  kbc,         \* the 8042: [busy, byte]; byte is what it works on
  drive,       \* the disk: [busy, lba]
  ph,          \* program header being read, 0 for the ELF header itself
  pa, offset   \* of readseg

vars == <<pc, image, mem, line, kbc, drive, ph, pa, offset>>

Junk == -1
Loader == -2
Zero == -3

HdrEnd == ELFHDR + HdrSectors * SECTSIZE

\* The cells of a segment, and those of the sectors that they lie on.
Cells(seg) == seg.pa .. seg.pa + seg.memsz - 1
Sectors(seg) == {a \in 0 .. MemCells - 1 : \E x \in Cells(seg) : a \div SECTSIZE = x \div SECTSIZE}

\* kern/kernel.ld links the kernel from 1 MB on (:15), and the linker lets a segment
\* begin at the same place of a sector in the file as in memory; segments that share
\* a sector follow each other in the file as they do in memory.  What a segment has
\* beyond the file is what lies between edata and end.
BootLoaderAssumption ==
  /\ SECTSIZE \in Nat \ {0} /\ HdrSectors \in Nat \ {0} /\ MemCells \in Nat
  /\ A20 \in Nat \ {0} /\ A20 % SECTSIZE = 0 /\ A20 < MemCells
  /\ ELFHDR \in Nat /\ ELFHDR % SECTSIZE = 0 /\ HdrEnd <= A20
  /\ BootCells \subseteq 0 .. A20 - 1 /\ BootCells \cap (ELFHDR .. HdrEnd - 1) = {}
  /\ \A k \in Images :
       /\ k.elf \in BOOLEAN /\ k.edata \in Nat /\ k.edata >= A20 /\ k.end \in Nat
       /\ k.segs \in Seq([pa : Nat, offset : Nat, filesz : Nat, memsz : Nat])
       /\ \A i \in DOMAIN k.segs :
            LET seg == k.segs[i] IN
            /\ seg.memsz > 0 /\ seg.filesz <= seg.memsz
            /\ seg.pa >= A20 /\ seg.pa + seg.memsz <= MemCells
            /\ seg.pa % SECTSIZE = seg.offset % SECTSIZE
            /\ \A a \in Cells(seg) : a \in k.edata .. k.end - 1 <=> a >= seg.pa + seg.filesz
            /\ \A j \in DOMAIN k.segs :
                 Cells(seg) \cap Sectors(k.segs[j]) # {} =>
                   seg.pa - seg.offset = k.segs[j].pa - k.segs[j].offset

-----------------------------------------------------------------------------

\* The address on the bus.
OnBus(a) == IF line \/ (a \div A20) % 2 = 0 THEN a ELSE a - A20

\* What sector k holds at cell i: sector 0 is the loader, then the file.
Sector(k, i) == IF k = 0 THEN Loader ELSE (k - 1) * SECTSIZE + i

\* The byte is lost when the controller is still busy.
OutKbc(byte) == kbc' = IF kbc.busy THEN kbc ELSE [busy |-> TRUE, byte |-> byte]

\* The controller finishes; 0xdf after 0xd1 opens the line.
KbcDone ==
  /\ kbc.busy
  /\ kbc' = [kbc EXCEPT !.busy = FALSE]
  /\ line' = (line \/ kbc.byte = "df")
  /\ UNCHANGED <<pc, image, mem, drive, ph, pa, offset>>

\* The disk is slower than the keyboard controller: nothing in the loader waits
\* for the line to open.
DriveDone ==
  /\ drive.busy /\ ~kbc.busy
  /\ drive' = [drive EXCEPT !.busy = FALSE]
  /\ UNCHANGED <<pc, image, mem, line, kbc, ph, pa, offset>>

Start1 ==
  /\ pc = "seta20.1" /\ ~kbc.busy
  /\ OutKbc("d1") /\ pc' = "seta20.2"
  /\ UNCHANGED <<image, mem, line, drive, ph, pa, offset>>

Start2 ==
  /\ pc = "seta20.2" /\ ~kbc.busy
  /\ OutKbc("df") /\ pc' = "bootmain"
  /\ UNCHANGED <<image, mem, line, drive, ph, pa, offset>>

\* Mutant of Readseg: pa is not rounded down.
Mut_Readseg(to, off) == pa' = to /\ offset' = (off \div SECTSIZE) + 1

\* readseg's start: from the sector that holds the first cell; the file is
\* after the loader's sector.
Readseg(to, off) == pa' = to - (to % SECTSIZE) /\ offset' = (off \div SECTSIZE) + 1

EndPa == IF ph = 0 THEN HdrEnd
         ELSE image.segs[ph].pa + image.segs[ph].memsz

Bootmain ==
  /\ pc = "bootmain"
  /\ ph' = 0 /\ Readseg(ELFHDR, 0) /\ pc' = "readseg"
  /\ UNCHANGED <<image, mem, line, kbc, drive>>

\* readsect: wait for the disk, name the sector; wait again and read it.
Command ==
  /\ pc = "readseg" /\ pa < EndPa /\ ~drive.busy
  /\ drive' = [busy |-> TRUE, lba |-> offset] /\ pc' = "waitdisk"
  /\ UNCHANGED <<image, mem, line, kbc, ph, pa, offset>>

Insl ==
  /\ pc = "waitdisk" /\ ~drive.busy
  /\ mem' = LET target == {OnBus(a) : a \in pa .. pa + SECTSIZE - 1} IN
            [a \in DOMAIN mem |-> IF a \in target THEN Sector(drive.lba, (a - pa) % SECTSIZE) ELSE mem[a]]
  /\ pa' = pa + SECTSIZE /\ offset' = offset + 1 /\ pc' = "readseg"
  /\ UNCHANGED <<image, line, kbc, drive, ph>>

\* A segment is there: check the magic number after the header, go to the next
\* segment, or enter the kernel.
Advance ==
  /\ pc = "readseg" /\ pa >= EndPa
  /\ CASE ph = 0 /\ ~(image.elf /\ mem[ELFHDR] = 0) -> pc' = "bad" /\ UNCHANGED <<ph, pa, offset>>
       [] ph = Len(image.segs) -> pc' = "entry" /\ UNCHANGED <<ph, pa, offset>>
       [] OTHER -> /\ ph' = ph + 1 /\ pc' = "readseg"
                   /\ Readseg(image.segs[ph + 1].pa, image.segs[ph + 1].offset)
  /\ UNCHANGED <<image, mem, line, kbc, drive>>

\* i386_init: memset(edata, 0, end - edata).
ClearBss ==
  /\ pc = "entry"
  /\ mem' = [a \in DOMAIN mem |-> IF a \in image.edata .. image.end - 1 THEN Zero ELSE mem[a]]
  /\ pc' = "kernel"
  /\ UNCHANGED <<image, line, kbc, drive, ph, pa, offset>>

Init ==
  /\ image \in Images
  /\ pc = "seta20.1" /\ line = FALSE /\ ph = 0 /\ pa = 0 /\ offset = 0
  /\ mem = [a \in 0 .. MemCells - 1 |-> IF a \in BootCells THEN Loader ELSE Junk]
  /\ kbc \in {[busy |-> b, byte |-> "other"] : b \in BOOLEAN}
  /\ drive = [busy |-> FALSE, lba |-> 0]

Next == KbcDone \/ DriveDone \/ Start1 \/ Start2 \/ Bootmain \/ Command \/ Insl \/ Advance \/ ClearBss

Spec == Init /\ [][Next]_vars

-----------------------------------------------------------------------------
(* Properties *)

\* The loader does not overwrite itself or the header it still reads: neither
\* by reading whole sectors nor by addresses that wrap at A20.
LoaderIntact ==
  /\ \A a \in BootCells : mem[a] = Loader
  /\ ph > 0 => \A a \in ELFHDR .. HdrEnd - 1 : mem[a] = a - ELFHDR

\* When the kernel runs, every segment has the file's contents, the cells that
\* the neighbour segments share a sector with included, and its bss is zero.
KernelAsLinked ==
  pc = "kernel" =>
    \A i \in DOMAIN image.segs :
      LET seg == image.segs[i] IN
      /\ \A k \in 0 .. seg.filesz - 1 : mem[seg.pa + k] = seg.offset + k
      /\ \A k \in seg.filesz .. seg.memsz - 1 : mem[seg.pa + k] = Zero

\* What the boot loader enters is the kernel, and it got there by its own code.
ImagesAsLinked == LoaderIntact /\ KernelAsLinked
==============================================================================

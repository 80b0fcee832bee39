------------------------------- MODULE LoaderParts -------------------------------
(***************************************************************************)
(* The two programs that load others, in one specification: the boot       *)
(* loader (BootLoader, here with the prefix Disk) and load_icode           *)
(* (LoadIcode, here Icode).  They do not share state in their models: a    *)
(* behaviour is a behaviour of one of them, and the variables of the other *)
(* stay 0.                                                                 *)
(***************************************************************************)
EXTENDS Integers

CONSTANTS
  SECTSIZE, MemCells, A20, ELFHDR, HdrSectors, BootCells, Images,    \* of BootLoader
  PageCells, NPTENTRIES, UserPages, Frames, FreeCounts, Binaries     \* of LoadIcode

VARIABLES
  loaderPart,   \* whose behaviour it is
  bootpc, image, ram, line, kbc, drive, header, pa, offset,
  icodepc, binary, free, tables, pagemap, mem, icodecr3, ph, curva, eip

Disk == INSTANCE BootLoader WITH pc <- bootpc, mem <- ram, ph <- header

Icode == INSTANCE LoadIcode WITH PGSIZE <- PageCells, pc <- icodepc, cr3 <- icodecr3

ASSUME LoaderPartsAssumption == Disk!BootLoaderAssumption /\ Icode!LoadIcodeAssumption

-----------------------------------------------------------------------------

diskVars == <<bootpc, image, ram, line, kbc, drive, header, pa, offset>>
icodeVars == <<icodepc, binary, free, tables, pagemap, mem, icodecr3, ph, curva, eip>>
loaderVars == <<loaderPart, diskVars, icodeVars>>

DiskIdle ==
  /\ bootpc = 0 /\ image = 0 /\ ram = 0 /\ line = 0 /\ kbc = 0 /\ drive = 0 /\ header = 0 /\ pa = 0
  /\ offset = 0
IcodeIdle ==
  /\ icodepc = 0 /\ binary = 0 /\ free = 0 /\ tables = 0 /\ pagemap = 0 /\ mem = 0 /\ icodecr3 = 0
  /\ ph = 0 /\ curva = 0 /\ eip = 0

LoaderIdle == loaderPart = "none" /\ DiskIdle /\ IcodeIdle

LoaderInit ==
  \/ loaderPart = "BootLoader" /\ Disk!Init /\ IcodeIdle
  \/ loaderPart = "LoadIcode" /\ Icode!Init /\ DiskIdle

LoaderNext ==
  \/ loaderPart = "BootLoader" /\ Disk!Next /\ UNCHANGED <<loaderPart, icodeVars>>
  \/ loaderPart = "LoadIcode" /\ Icode!Next /\ UNCHANGED <<loaderPart, diskVars>>

LoaderSpec == LoaderInit /\ [][LoaderNext]_loaderVars

-----------------------------------------------------------------------------

\* What a loader loads arrives as it was linked.  boot/main.c overwrites neither
\* itself nor the header it still reads and starts a kernel with a zero bss;
\* load_icode gives an environment its program and nothing else, and refuses a
\* sound program only when pages run out.
ImagesAsLinked ==
  /\ loaderPart = "BootLoader" => Disk!ImagesAsLinked
  /\ loaderPart = "LoadIcode" => Icode!ImagesAsLinked
================================================================================

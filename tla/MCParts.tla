-------------------------------- MODULE MCParts --------------------------------
(***************************************************************************)
(* TLC instances of the components that do not share state with each       *)
(* other in their models, in one run: a behaviour is a behaviour of one of *)
(* them.  CpuParts, LoaderParts, TrapParts and ProgramParts, which proofs   *)
(* are about, have variables of their own; the other parts take turns to   *)
(* use v1 .. v17, and one with fewer variables leaves the last ones at 0.  *)
(***************************************************************************)
EXTENDS CpuParts, LoaderParts, TrapParts, ProgramParts, Sequences, TLC

VARIABLES
  part,
  v1, v2, v3, v4, v5, v6, v7, v8, v9, v10, v11, v12, v13, v14, v15, v16, v17

turns == <<v1, v2, v3, v4, v5, v6, v7, v8, v9, v10, v11, v12, v13, v14, v15, v16, v17>>
vars == <<part, turns, cpuVars, loaderVars, trapVars, progVars>>

-----------------------------------------------------------------------------
(* Parameters *)

\* Bytes of the CMOS of machines with 3 MB, 4 MB, 5.5 MB, 16 MB, 16 MB and 64 KB,
\* and 32 MB: memory that ends below, at and above what entry_pgdir maps, and at and
\* above what the second pair of bytes can tell.
Cmos(b0, b1, e0, e1, x0, x1) == 21 :> b0 @@ 22 :> b1 @@ 23 :> e0 @@ 24 :> e1 @@ 52 :> x0 @@ 53 :> x1
MCMachines ==
  {Cmos(128, 2, 0, 8, 0, 0), Cmos(127, 2, 0, 12, 0, 0), Cmos(128, 2, 0, 18, 0, 0),
   Cmos(128, 2, 0, 60, 0, 0), Cmos(127, 2, 0, 60, 1, 0), Cmos(128, 2, 0, 60, 0, 1)}

MCTrapPrograms ==
  {"divzero", "softint", "badsegment", "breakpoint", "faultread", "faultreadkernel", "faultwrite",
   "faultwritekernel", "testbss", "hello", "buggyhello", "buggyhello2", "evilhello", "yield",
   "unknown", "print"}

\* The keys of ph.c: two threads put the same one, and three share a bucket.
MCKeys == <<5, 3, 4, 3, 7, 1>>

MCOutputs == {<<"y">>, <<"y", "\n">>, <<"\t", "y", "\r">>}

MCLines ==
  {<<>>, <<"gen">>, <<"gen", "|", "cat">>, <<"gen", "|", "cat", "|", "head">>,
   <<"gen", "|", "head", "|", "cat">>, <<"cat", "<", "f", ">", "g">>,
   <<"cat", "x", "<", "f", "<", "none", "|", "cat">>, <<"<", "f", "cat", ">", "f", ">", "g">>,
   <<"none", "|", "cat">>, <<"gen", "|", "cat", "|", "cat", ">", "g">>, <<"gen", "|", "none">>,
   <<"gen", "|">>, <<"|", "cat">>, <<"cat", "<">>, <<"gen", "x", "x", "x">>,
   <<"cat", "<", "g", "|", "head">>}

\* Symbol tables of up to five entries, functions in the order of their addresses.
Stabs == [type : {"FUN"}, value : 1 .. 4, desc : {0}] \cup [type : {"X"}, value : {0}, desc : {0}]
MCTables ==
  {t \in UNION {[1 .. k -> Stabs] : k \in 1 .. 5} :
     \A x, y \in DOMAIN t :
       x < y /\ t[x].type = "FUN" /\ t[y].type = "FUN" => t[x].value <= t[y].value}

\* Linked programs: a C file with main and another function, and an assembler file.
CFile(f) ==
  [name |-> "c", asm |-> FALSE,
   funs |-> <<[name |-> "main", narg |-> 1, size |-> 2, inlined |-> FALSE], f>>]
Asm == [name |-> "S", asm |-> TRUE,
        funs |-> <<[name |-> "a", narg |-> 0, size |-> 3, inlined |-> FALSE]>>]
MCPrograms ==
  UNION {{<<CFile(f)>>, <<Asm, CFile(f)>>, <<CFile(f), Asm>>} :
           f \in [name : {"f"}, narg : {0, 2}, size : {2, 4}, inlined : BOOLEAN]}

\* Tables of the kernel, and of programs, some with a part missing.
MCSpaces ==
  [kernel : BOOLEAN,
   readable : {{"usd", "stabs", "stabstr"}, {"stabs", "stabstr"}, {"usd", "stabs"}, {"usd", "stabstr"}},
   strings : {"terminated", "unterminated", "empty"}, beyond : {{}, {"f", "h"}, {"main", "c"}}]

MCNumbers == {-32768, -129, -128, -1, 0, 9, 10, 127, 128, 255, 4095, 32767}
\* Only numbers use l, and only strings #.
MCDirectives ==
  {d \in [minus : BOOLEAN, zero : BOOLEAN, alt : BOOLEAN, ls : 0 .. 2,
          width : {<<>>, <<"5">>, <<"1", "2">>, <<"*">>},
          prec : {<<>>, <<"0">>, <<"2">>, <<"1", "0">>, <<"*">>},
          conv : {"d", "u", "o", "x", "p", "s", "e", "c", "%", "z"},
          stars : {<<>>, <<2>>, <<-3>>, <<6, 2>>, <<6, -3>>, <<-3, 2>>}] :
     /\ Len(d.stars) = (IF d.width = <<"*">> THEN 1 ELSE 0) + (IF d.prec = <<"*">> THEN 1 ELSE 0)
     /\ d.ls > 0 => d.conv \in {"d", "u", "o", "x"}
     /\ d.alt => d.conv \in {"s", "z"}
     /\ d.prec \notin {<<>>, <<"2">>} => d.conv \in {"s", "z"}}

MCNumerals ==
  {<<>>, <<"-">>, <<"0">>, <<"0", "x">>, <<"0", "1", "7">>, <<"0", "1", "9">>,
   <<"0", "x", "f", "0", "0">>, <<" ", "-", "1", "2", "a">>, <<"\t", "+", "F", "F">>,
   <<"9", "8", "X">>, <<"0", "x", "A", "g">>}

\* Kernels whose two segments share a sector, or not, or start inside one.
KernelSeg(at, from, inFile, inMem) == [pa |-> at, offset |-> from, filesz |-> inFile, memsz |-> inMem]
MCImages ==
  [elf : BOOLEAN, edata : {25}, end : {29},
   segs : {<<KernelSeg(16, 4, 4, 4), KernelSeg(20, 8, 5, 9)>>,
           <<KernelSeg(16, 4, 3, 3), KernelSeg(19, 7, 6, 10)>>,
           <<KernelSeg(17, 5, 5, 5), KernelSeg(23, 11, 2, 6)>>}]

\* Programs with segments over page boundaries, one to skip, and an unsound one.
UserSeg(toLoad, at, from, inFile, inMem) ==
  [load |-> toLoad, va |-> at, offset |-> from, filesz |-> inFile, memsz |-> inMem]
MCBinaries ==
  [elf : BOOLEAN, entry : {5},
   segs : {<<UserSeg(TRUE, 5, 10, 3, 3), UserSeg(FALSE, 0, 0, 0, 9), UserSeg(TRUE, 8, 20, 2, 6)>>,
           <<UserSeg(TRUE, 3, 40, 2, 2), UserSeg(TRUE, 9, 10, 1, 5), UserSeg(FALSE, 2, 0, 4, 4)>>,
           <<UserSeg(TRUE, 4, 10, 5, 4)>>, <<UserSeg(TRUE, 7, 10, 2, 2)>>}]

Typable == {"0", "3", "4", "7", "8", "9", "b", "c", "f"}
MCTypedLines ==
  {<<"show", " ", x, " ", y>> : x \in Typable, y \in Typable} \cup
  {<<>>, <<" ">>, <<"help">>, <<" ", "help", " ", " ">>, <<"help", "3", " ", "4">>, <<"show">>,
   <<"show", " ", "q", " ", "3">>, <<"show", " ", "0", " ", "4", "4">>,
   <<" ", "show", " ", "0", " ", " ", "8", " ">>, <<"a", " ", "b", " ", "c", " ", "d">>,
   <<"a", " ", "b", " ", "c", " ", "d", " ", "e">>}

\* More CPUs than there is room for, entries to skip, and one of unknown type.
Cpu(id) == [type |-> 0, apicid |-> id]
Other(t) == [type |-> t, apicid |-> 0]
MCTablesMp ==
  [ebda : BOOLEAN, places : SUBSET {"ebda", "base", "rom"}, conf : {"good", "bad"}, bsp : {0, 1},
   entries : {<<Cpu(0), Cpu(1)>>, <<Cpu(0), Cpu(1), Cpu(2), Other(1), Other(3)>>,
              <<Cpu(0), Other(2), Cpu(1), Cpu(2), Cpu(3)>>, <<Cpu(0), Cpu(1), Other(9), Cpu(2)>>}]

\* Lab 3, and lab 4 with one, two or three CPUs; one where the boot processor is not CPU 0.
MCCpus ==
  {[lab |-> 3, ncpu |-> 1, bsp |-> 0], [lab |-> 4, ncpu |-> 1, bsp |-> 0],
   [lab |-> 4, ncpu |-> 3, bsp |-> 0], [lab |-> 4, ncpu |-> 2, bsp |-> 1]}

-----------------------------------------------------------------------------
(* The parts *)

Boot == INSTANCE BootMemory WITH
  Machines <- MCMachines, KernelEnd <- 400, Bss <- 300, Labs <- {2, 3, 4},
  lab <- v1, machine <- v2, step <- v3, nextfree <- v4, npages <- v5, basepages <- v6,
  at <- v7, mem <- v8, cr3 <- v9, touched <- v10, base <- v11, failed <- v12

Kbd == INSTANCE Keyboard WITH
  Keys <- {"a", "del", "lshift", "rshift", "rctl", "lalt", "caps"}, CONSBUFSIZE <- 3,
  MaxKeys <- 4, MaxSerial <- 1,
  held <- v1, leds <- v2, codes <- v3, uart <- v4, shift <- v5, ring <- v6, rpos <- v7,
  wpos <- v8, polling <- v9, keyed <- v10, sent <- v11, stored <- v12, got <- v13,
  reboots <- v14, lost <- v15, tangled <- v16, strokes <- v17

Crt == INSTANCE Display WITH
  CRT_COLS <- 3, CRT_ROWS <- 3, BUFLEN <- 5, Prompt <- <<"K">>, Outputs <- MCOutputs,
  Typed <- {"x", "BS", "DEL", "\t", "\n"}, MaxTyped <- 6,
  crt <- v1, wire <- v2, line <- v3, reading <- v4, ntyped <- v5

Sh == INSTANCE Shell WITH
  Lines <- MCLines, MAXARGS <- 4, Capacity <- 1, MaxFailed <- 1,
  input <- v1, shell <- v2, proc <- v3, pipes <- v4, files <- v5, typed <- v6, failures <- v7

Stab == INSTANCE Symbols WITH
  Tables <- MCTables, Programs <- MCPrograms, Spaces <- MCSpaces, Addr <- 0 .. 8,
  question <- v1, answer <- v2

Fmt == INSTANCE Printfmt WITH
  Bits <- 8, Numbers <- MCNumbers, Strings <- {<<>>, <<"a">>, <<"a", "BEL", "c">>, <<"NULL">>},
  Directives <- MCDirectives, BufSizes <- {0, 1, 5},
  directive <- v1, arg <- v2, n <- v3, output <- v4, buffer <- v5, result <- v6

Str == INSTANCE Strings WITH
  Size <- 12, Half <- 3, Bytes <- {0, 1, 200}, Numerals <- MCNumerals,
  before <- v1, mem <- v2, call <- v3, ret <- v4

Mon == INSTANCE Monitor WITH
  MAXARGS <- 4, PGSIZE <- 4, Space <- 16, Mapped <- {1, 3}, Lines <- MCTypedLines,
  pc <- v1, line <- v2, at <- v3, argv <- v4, curaddr <- v5, endaddr <- v6, shown <- v7

Forks == INSTANCE ForkPrograms WITH
  Program <- {"forktree", "spin", "stresssched", "printers"}, DEPTH <- 2, Children <- 3,
  Yields <- 3, BufSize <- 4, Lines <- <<<<"a", "b", "c">>, <<"d", "e", "f", "g", "h">>>>,
  program <- v1, stack <- v2, counter <- v3, born <- v4, buf <- v5, console <- v6

ASSUME PartsAssumption ==
  /\ Boot!BootMemoryAssumption
  /\ Kbd!KeyboardAssumption
  /\ Crt!DisplayAssumption
  /\ Stab!SymbolsAssumption
  /\ Fmt!PrintfmtAssumption
  /\ Str!StringsAssumption
  /\ Mon!MonitorAssumption
  /\ Forks!ForkProgramsAssumption

-----------------------------------------------------------------------------

\* Variables that a part with fewer than 17 leaves alone.
After2 == <<v3, v4, v5, v6, v7, v8, v9, v10, v11, v12, v13, v14, v15, v16, v17>>
After4 == <<v5, v6, v7, v8, v9, v10, v11, v12, v13, v14, v15, v16, v17>>
After5 == <<v6, v7, v8, v9, v10, v11, v12, v13, v14, v15, v16, v17>>
After6 == <<v7, v8, v9, v10, v11, v12, v13, v14, v15, v16, v17>>
After7 == <<v8, v9, v10, v11, v12, v13, v14, v15, v16, v17>>
After12 == <<v13, v14, v15, v16, v17>>

\* The first n variables are the part's.
ZeroAfter(n) ==
  /\ n < 3 => v3 = 0
  /\ n < 4 => v4 = 0
  /\ n < 5 => v5 = 0
  /\ n < 6 => v6 = 0
  /\ n < 7 => v7 = 0
  /\ n < 8 => v8 = 0
  /\ n < 9 => v9 = 0
  /\ n < 10 => v10 = 0
  /\ n < 11 => v11 = 0
  /\ n < 12 => v12 = 0
  /\ n < 13 => v13 = 0
  /\ n < 14 => v14 = 0
  /\ n < 15 => v15 = 0
  /\ n < 16 => v16 = 0
  /\ n < 17 => v17 = 0

Turn ==
  \/ part = "BootMemory" /\ Boot!Init /\ ZeroAfter(12)
  \/ part = "Keyboard" /\ Kbd!Init
  \/ part = "Display" /\ Crt!Init /\ ZeroAfter(5)
  \/ part = "Shell" /\ Sh!Init /\ ZeroAfter(7)
  \/ part = "Symbols" /\ Stab!Init /\ ZeroAfter(2)
  \/ part = "Printfmt" /\ Fmt!Init /\ ZeroAfter(6)
  \/ part = "Strings" /\ Str!Init /\ ZeroAfter(4)
  \/ part = "Monitor" /\ Mon!Init /\ ZeroAfter(7)
  \/ part = "ForkPrograms" /\ Forks!Init /\ ZeroAfter(6)

NoTurn == v1 = 0 /\ v2 = 0 /\ ZeroAfter(2)

Init ==
  \/ Turn /\ CpuIdle /\ LoaderIdle /\ TrapIdle /\ ProgIdle
  \/ part = "Cpus" /\ CpuInit /\ NoTurn /\ LoaderIdle /\ TrapIdle /\ ProgIdle
  \/ part = "Loaders" /\ LoaderInit /\ NoTurn /\ CpuIdle /\ TrapIdle /\ ProgIdle
  \/ part = "Traps" /\ TrapInit /\ NoTurn /\ CpuIdle /\ LoaderIdle /\ ProgIdle
  \/ part = "Programs" /\ ProgInit /\ NoTurn /\ CpuIdle /\ LoaderIdle /\ TrapIdle

TurnNext ==
  \/ part = "BootMemory" /\ Boot!Next /\ UNCHANGED After12
  \/ part = "Keyboard" /\ Kbd!Next
  \/ part = "Display" /\ Crt!Next /\ UNCHANGED After5
  \/ part = "Shell" /\ Sh!Next /\ UNCHANGED After7
  \/ part = "Symbols" /\ Stab!Next /\ UNCHANGED After2
  \/ part = "Printfmt" /\ Fmt!Next /\ UNCHANGED After6
  \/ part = "Strings" /\ Str!Next /\ UNCHANGED After4
  \/ part = "Monitor" /\ Mon!Next /\ UNCHANGED After7
  \/ part = "ForkPrograms" /\ Forks!Next /\ UNCHANGED After6

Next ==
  \/ TurnNext /\ UNCHANGED <<part, cpuVars, loaderVars, trapVars, progVars>>
  \/ part = "Cpus" /\ CpuNext /\ UNCHANGED <<part, turns, loaderVars, trapVars, progVars>>
  \/ part = "Loaders" /\ LoaderNext /\ UNCHANGED <<part, turns, cpuVars, trapVars, progVars>>
  \/ part = "Traps" /\ TrapNext /\ UNCHANGED <<part, turns, cpuVars, loaderVars, progVars>>
  \/ part = "Programs" /\ ProgNext /\ UNCHANGED <<part, turns, cpuVars, loaderVars, trapVars>>

Spec == Init /\ [][Next]_vars

-----------------------------------------------------------------------------
(* Properties.  Each one collects what its parts promise: the conjuncts are  *)
(* stated, with the code they are about, in the modules of the parts.  Those *)
(* of CpuParts, LoaderParts, TrapParts and ProgramParts are stated there.    *)

\* The kernel is set up once, in an order that works.  entry.S stays on mapped
\* code while paging goes on; mem_init touches only memory that is mapped at that
\* moment, hands out no page twice, passes its own checks, goes on where it was
\* after it loaded its own page directory, and leaves user mode nothing to write.
BootIsSound ==
  part = "BootMemory" =>
    /\ Boot!TypeOK
    /\ Boot!CodeIsThere /\ Boot!NoAssertFails /\ Boot!TouchedIsMapped
    /\ Boot!PagesAccountedFor /\ Boot!SwitchIsSafe /\ Boot!UserCannotWrite

\* What is typed is what is read and shown.  Characters reach readline in order,
\* with the modifiers of their moment, and no modifier sticks; the screen shows
\* the end of what was printed and the echo is the line; the monitor's commands
\* get the words of the line, and showmappings lists its range.
ConsoleIsFaithful ==
  /\ part = "Keyboard" => Kbd!TypeOK /\ Kbd!InOrder /\ Kbd!KeysAsMeant /\ Kbd!NothingStuck
  /\ part = "Display" => Crt!TypeOK /\ Crt!ScreenIsTail /\ Crt!EchoIsLine
  /\ part = "Monitor" => Mon!ArgvIsWords /\ Mon!ShowsTheRange

\* Programs and processes come to the end that they were written for.  No prime is
\* missing when the sieve rests, pingpong counts to ten, sendpage finds its messages,
\* forktree prints every name once, spin and stresssched leave no child and lose no
\* count, and a short line is printed in one piece; every test program ends as the
\* grade scripts expect, and one without a good page fault handler is destroyed.  Of
\* the homeworks, all threads of ph.c end, and sh.c starts a program with the
\* arguments that were typed, its own ends of pipes and files and no other
\* descriptor, so that no pipeline hangs.
ProgramsFinish ==
  /\ progPart = "UserPrograms" =>
       Progs!PrimesFound /\ Progs!PingpongEnds /\ Progs!SendpageCorrect
  /\ progPart = "HashTable" => Hash!AllThreadsEnd
  /\ part = "ForkPrograms" =>
       Forks!TreePrintedOnce /\ Forks!SpinnersEnd /\ Forks!LinesInOnePiece
  /\ part = "Shell" => Sh!CleanDescriptors /\ Sh!NobodyHangs /\ Sh!RunsWhatWasTyped
  /\ trapPart = "Traps" => Trap!EndsAsGraded
  /\ trapPart = "UserException" => Upcall!BadHandlersDie

==============================================================================

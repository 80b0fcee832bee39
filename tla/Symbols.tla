-------------------------------- MODULE Symbols -------------------------------
(***************************************************************************)
(* Symbol lookup (kern/kdebug.c): stab_binsearch, on any table of stabs,   *)
(* and debuginfo_eip, on the tables that the compiler makes of programs of *)
(* a few functions, the kernel or the one that runs.  Addresses count      *)
(* bytes; a table is a sequence of [type, value, desc], numbered from 0 as *)
(* in C, where desc is the name at n_strx or the line.                     *)
(***************************************************************************)
EXTENDS Integers, FiniteSets, Sequences

CONSTANTS
  Tables,    \* tables for stab_binsearch: sequences of stabs
  Programs,  \* programs for debuginfo_eip: sequences of files, see Layout
  Spaces,    \* and where their tables are, see Space
  Addr       \* instruction addresses, 1 ..

VARIABLES
  question,  \* what is looked up: [kind, table or program, space, addr]
  answer     \* what was found, once it was

vars == <<question, answer>>

Stab(type, value, desc) == [type |-> type, value |-> value, desc |-> desc]

-----------------------------------------------------------------------------
(* stab_binsearch *)

Elem(stabs, k) == stabs[k + 1]

\* The last stab of a type in l .. m, or l - 1.
RECURSIVE Earlier(_, _, _, _)
Earlier(stabs, l, m, type) ==
  IF m >= l /\ Elem(stabs, m).type # type THEN Earlier(stabs, l, m - 1, type) ELSE m

\* Mutant of Loop: an exact match ends the search.
RECURSIVE Mut_Loop(_, _, _)
Mut_Loop(stabs, type, s) ==
  IF s.l > s.r THEN s
  ELSE LET true_m == (s.l + s.r) \div 2
           m == Earlier(stabs, s.l, true_m, type) IN
       IF m < s.l THEN Mut_Loop(stabs, type, [s EXCEPT !.l = true_m + 1])
       ELSE IF Elem(stabs, m).value < s.addr
            THEN Mut_Loop(stabs, type, [s EXCEPT !.any = TRUE, !.left = m, !.l = true_m + 1])
       ELSE IF Elem(stabs, m).value > s.addr
            THEN Mut_Loop(stabs, type, [s EXCEPT !.any = TRUE, !.right = m - 1, !.r = m - 1])
       ELSE [s EXCEPT !.any = TRUE, !.left = m]

\* The loop of stab_binsearch on [l, r, addr, any, left, right].
RECURSIVE Loop(_, _, _)
Loop(stabs, type, s) ==
  IF s.l > s.r THEN s
  ELSE LET true_m == (s.l + s.r) \div 2
           m == Earlier(stabs, s.l, true_m, type) IN
       IF m < s.l THEN Loop(stabs, type, [s EXCEPT !.l = true_m + 1])
       ELSE IF Elem(stabs, m).value < s.addr
            THEN Loop(stabs, type, [s EXCEPT !.any = TRUE, !.left = m, !.l = true_m + 1])
       ELSE IF Elem(stabs, m).value > s.addr
            THEN Loop(stabs, type, [s EXCEPT !.any = TRUE, !.right = m - 1, !.r = m - 1])
       ELSE Loop(stabs, type, [s EXCEPT !.any = TRUE, !.left = m, !.l = m, !.addr = @ + 1])

StabBinsearch(stabs, left, right, type, addr) ==
  LET s == Loop(stabs, type, [l |-> left, r |-> right, addr |-> addr, any |-> FALSE,
                              left |-> left, right |-> right])
      \* "find rightmost region containing addr"
      l == Earlier(stabs, s.left + 1, s.right, type) IN
  IF ~s.any THEN [left |-> s.left, right |-> s.left - 1]
  ELSE [left |-> IF s.right > s.left THEN l ELSE s.right, right |-> s.right]

-----------------------------------------------------------------------------
(* debuginfo_eip *)

\* kernel: the address is above ULIM; otherwise the tables of the program are
\* found through USTABDATA, and readable names the parts that user_mem_check
\* accepts, each as a whole (of the stabs it sees as many bytes as there are
\* entries).  strings is how the string table ends, and beyond holds the names
\* whose n_strx is not inside.
Parts == {"usd", "stabs", "stabstr"}
Space == [kernel : BOOLEAN, readable : SUBSET Parts,
          strings : {"terminated", "unterminated", "empty"}, beyond : SUBSET STRING]

SymbolsAssumption == Spaces \subseteq Space

\* The tests before the tables are used.
Usable(space) == (space.kernel \/ space.readable = Parts) /\ space.strings = "terminated"

Name(space, stab) == IF stab.desc \in space.beyond THEN "<unknown>" ELSE stab.desc

\* What *info says at first, and after a failure.
Unknown(addr) ==
  [found |-> FALSE, fn |-> "<unknown>", fnaddr |-> addr, line |-> 0, file |-> "<unknown>", narg |-> 0]

\* Backwards from the line to the stab that names its file.
RECURSIVE FileOf(_, _, _, _)
FileOf(space, stabs, lfile, k) ==
  IF k < lfile THEN "<unknown>"
  ELSE IF Elem(stabs, k).type = "SOL" \/ (Elem(stabs, k).type = "SO" /\ Elem(stabs, k).value # 0)
       THEN Name(space, Elem(stabs, k))
  ELSE FileOf(space, stabs, lfile, k - 1)

\* How many arguments follow a function.
RECURSIVE Nargs(_, _, _)
Nargs(stabs, k, rfun) ==
  IF k < rfun /\ Elem(stabs, k).type = "PSYM" THEN 1 + Nargs(stabs, k + 1, rfun) ELSE 0

\* The file and the function containing addr, then the line, by offset within
\* the function or, in an assembly file, by address.
DebuginfoEip(space, stabs, addr) ==
  LET file == StabBinsearch(stabs, 0, Len(stabs) - 1, "SO", addr)
      fun == StabBinsearch(stabs, file.left, file.right, "FUN", addr)
      inFun == fun.left <= fun.right
      info == IF inFun THEN [Unknown(addr) EXCEPT !.fn = Name(space, Elem(stabs, fun.left)),
                                                  !.fnaddr = Elem(stabs, fun.left).value]
              ELSE Unknown(addr)
      line == IF inFun
              THEN StabBinsearch(stabs, fun.left, fun.right, "SLINE", addr - info.fnaddr)
              ELSE StabBinsearch(stabs, file.left, file.right, "SLINE", addr) IN
  IF ~Usable(space) \/ file.left = 0 THEN Unknown(addr)
  ELSE IF line.left > line.right THEN info
  ELSE [info EXCEPT !.found = TRUE,
                    !.line = Elem(stabs, line.left).desc,
                    !.file = FileOf(space, stabs, file.left, line.left),
                    !.narg = IF fun.left < fun.right THEN Nargs(stabs, fun.left + 1, fun.right) ELSE 0]

-----------------------------------------------------------------------------
(* The table of a program: a header, then for each file its N_SO, and for  *)
(* each function N_FUN, its parameters and its lines, one stab for every   *)
(* two bytes; an inlined part comes from file "h".  Assembly files  *)
(* have lines at absolute addresses and no function.                       *)

\* A function is [name, narg, size, inlined]; a file [name, asm, funs].
LineStabs(f, start, asm) ==
  LET Value(k) == IF asm THEN start + 2 * (k - 1) ELSE 2 * (k - 1)
      n == (f.size + 1) \div 2 IN
  [k \in 1 .. n |-> Stab("SLINE", Value(k), 10 * start + k)]
  \o (IF f.inlined THEN <<Stab("SOL", start, "h"), Stab("SLINE", f.size, 7)>> ELSE <<>>)

Size(f) == f.size + (IF f.inlined THEN 1 ELSE 0)

FunStabs(f, start, asm) ==
  (IF asm THEN <<>> ELSE <<Stab("FUN", start, f.name)>> \o [k \in 1 .. f.narg |-> Stab("PSYM", 0, "x")])
  \o LineStabs(f, start, asm)

RECURSIVE FunsStabs(_, _, _)
FunsStabs(funs, start, asm) ==
  IF funs = <<>> THEN <<>>
  ELSE FunStabs(Head(funs), start, asm) \o FunsStabs(Tail(funs), start + Size(Head(funs)), asm)

RECURSIVE FunsSize(_)
FunsSize(funs) == IF funs = <<>> THEN 0 ELSE Size(Head(funs)) + FunsSize(Tail(funs))

RECURSIVE Layout(_, _)
Layout(files, start) ==
  IF files = <<>> THEN <<Stab("SO", start, "")>>
  ELSE <<Stab("SO", start, Head(files).name)>>
       \o FunsStabs(Head(files).funs, start, Head(files).asm)
       \o Layout(Tail(files), start + FunsSize(Head(files).funs))

TableOf(program) == <<Stab("HEADER", 0, "")>> \o Layout(program, 1)

RECURSIVE ProgramSize(_)
ProgramSize(files) == IF files = <<>> THEN 0 ELSE FunsSize(Head(files).funs) + ProgramSize(Tail(files))

-----------------------------------------------------------------------------

None == [asked |-> FALSE]

Init ==
  /\ answer = None
  /\ \/ question \in [kind : {"stabs"}, of : Tables, addr : Addr]
     \/ question \in [kind : {"eip"}, of : Programs, space : Spaces, addr : Addr]

Search ==
  /\ question.kind = "stabs" /\ answer = None
  /\ answer' = StabBinsearch(question.of, 0, Len(question.of) - 1, "FUN", question.addr)
  /\ UNCHANGED question

Lookup ==
  /\ question.kind = "eip" /\ answer = None
  /\ question.addr <= ProgramSize(question.of)
  /\ answer' = DebuginfoEip(question.space, TableOf(question.of), question.addr)
  /\ UNCHANGED question

Next == Search \/ Lookup

Spec == Init /\ [][Next]_vars

-----------------------------------------------------------------------------
(* Properties *)

Functions(stabs) == {k \in 0 .. Len(stabs) - 1 : Elem(stabs, k).type = "FUN"}

\* From a function stab to just before the next one; -1 stands for no function.
Region(stabs, k) ==
  LET later == {j \in Functions(stabs) : j > k}
      right == IF later = {} THEN Len(stabs) - 1 ELSE (CHOOSE j \in later : \A i \in later : j <= i) - 1 IN
  [left |-> IF k < 0 /\ right >= 0 THEN 0 ELSE k, right |-> right]

\* The binary search finds what a linear one does: the last function stab not
\* above the address, up to the next one.  Or it finds a later one, because an
\* exact match adds one to addr and searches on (kern/kdebug.c:89), but only if
\* at every address from the one asked for to that one a function begins.  Before
\* the first function there is no match, but left <= right all the same unless
\* the table begins with that function (kern/kdebug.c:39 says that left is then a
\* stab that contains the address).
BinsearchIsLinear ==
  question.kind = "stabs" /\ answer # None =>
    LET stabs == question.of
        addr == question.addr
        value == [k \in Functions(stabs) |-> Elem(stabs, k).value]
        Begins(a) == \E k \in Functions(stabs) : value[k] = a
        below == {k \in Functions(stabs) : value[k] <= addr}
        last == IF below = {} THEN -1 ELSE CHOOSE k \in below : \A j \in below : j <= k IN
    IF Functions(stabs) = {} THEN answer = [left |-> 0, right |-> -1]
    ELSE \/ answer = Region(stabs, last)
         \/ \E k \in Functions(stabs) \ below :
              answer = Region(stabs, k) /\ \A a \in addr .. value[k] : Begins(a)

\* The function, file, index of the line and arguments of the instruction,
\* read off the program itself.
RECURSIVE Locate(_, _, _)
Locate(files, start, addr) ==
  LET f == Head(files).funs
      end == start + FunsSize(f) IN
  IF addr >= end THEN Locate(Tail(files), end, addr)
  ELSE LET Start(k) == start + FunsSize(SubSeq(f, 1, k - 1))
           k == CHOOSE j \in DOMAIN f : Start(j) <= addr /\ addr < Start(j) + Size(f[j])
           off == addr - Start(k) IN
       [found |-> TRUE,
        fn |-> IF Head(files).asm THEN "<unknown>" ELSE f[k].name,
        fnaddr |-> IF Head(files).asm THEN addr ELSE Start(k),
        line |-> IF off = f[k].size THEN 7 ELSE 10 * Start(k) + off \div 2 + 1,
        file |-> IF off = f[k].size THEN "h" ELSE Head(files).name,
        narg |-> IF Head(files).asm THEN 0 ELSE f[k].narg]

\* The debugger names the right file, function, start of the function, line and
\* number of arguments for every instruction, also behind an inlined function, in
\* the first instruction of a function and in assembly files, if no line is
\* shorter than two bytes (see BinsearchIsLinear); a name outside the string
\* table is unknown, and so is everything where the tables cannot be used and
\* for an address before the program.
InfoIsRight ==
  question.kind = "eip" /\ answer # None =>
    LET right == Locate(question.of, 1, question.addr)   \* the program begins at 1
        space == question.space
        Known(name) == IF name \in space.beyond THEN "<unknown>" ELSE name IN
    answer = IF /\ question.addr > 0 /\ space.strings = "terminated"
                /\ space.kernel \/ space.readable = Parts
             THEN [right EXCEPT !.fn = Known(@), !.file = Known(@)] ELSE Unknown(question.addr)
==============================================================================

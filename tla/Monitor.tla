-------------------------------- MODULE Monitor --------------------------------
(***************************************************************************)
(* The kernel monitor (kern/monitor.c): runcmd splits a line into words    *)
(* and calls a command; showmappings walks the kernel's page table over a  *)
(* range of addresses, in words that wrap at Space.  A character of a line *)
(* is a blank or stands for a piece of a word.                             *)
(***************************************************************************)
EXTENDS Integers, Sequences, SequencesExt

CONSTANTS
  MAXARGS,
  PGSIZE,
  Space,       \* addresses; the arithmetic is modulo Space
  Mapped,      \* pages that kern_pgdir maps
  Lines        \* lines typed at the prompt

VARIABLES
  pc,          \* "parse", "run", "show", "prompt", "left" or "hung"
  line, at,    \* the line, and where runcmd is in it
  argv,
  curaddr, endaddr,
  shown        \* what showmappings printed, <<page, mapped>>

vars == <<pc, line, at, argv, curaddr, endaddr, shown>>

MonitorAssumption == MAXARGS \in Nat \ {0, 1} /\ PGSIZE \in Nat \ {0} /\ Space % PGSIZE = 0

\* The numbers that can be typed, and what strtol makes of them.
Numbers == [k \in {"0", "3", "4", "7", "8", "9", "b", "c", "f"} |->
             CASE k = "0" -> 0 [] k = "3" -> 3 [] k = "4" -> 4 [] k = "7" -> 7 [] k = "8" -> 8
               [] k = "9" -> 9 [] k = "b" -> 11 [] k = "c" -> 12 [] k = "f" -> 15]

IsNumber(word) == Len(word) = 1 /\ word[1] \in DOMAIN Numbers
Blank(k) == k <= Len(line) /\ line[k] = " "

-----------------------------------------------------------------------------

RoundDown(a) == a - (a % PGSIZE)
RoundUp(a) == RoundDown(a + PGSIZE - 1) % Space

Silent == UNCHANGED <<line, curaddr, endaddr, shown>>

\* Blanks become string ends; the end of the line ends the parse.
Gobble ==
  /\ pc = "parse" /\ Blank(at)
  /\ at' = at + 1
  /\ UNCHANGED <<pc, argv>> /\ Silent

Room(argc) == argc < MAXARGS - 1

Word ==
  /\ pc = "parse" /\ at <= Len(line) /\ ~Blank(at)
  /\ LET end == CHOOSE k \in at .. Len(line) : /\ \A j \in at .. k : ~Blank(j)
                                               /\ k = Len(line) \/ Blank(k + 1) IN
     IF Room(Len(argv))
     THEN argv' = Append(argv, SubSeq(line, at, end)) /\ at' = end + 1 /\ UNCHANGED pc
     ELSE pc' = "prompt" /\ UNCHANGED <<argv, at>>       \* "Too many arguments"
  /\ Silent

EndOfLine ==
  /\ pc = "parse" /\ at > Len(line)
  /\ pc' = IF argv = <<>> THEN "prompt" ELSE "run"
  /\ UNCHANGED <<argv, at>> /\ Silent

\* Only showmappings does more than print, or returns -1, which ends monitor.
Run ==
  /\ pc = "run"
  /\ IF argv[1] # <<"show">> THEN pc' = "prompt" /\ UNCHANGED <<curaddr, endaddr>>
     ELSE IF \/ Len(argv) # 3
             \/ Len(argv) = 3 /\ (~IsNumber(argv[2]) \/ ~IsNumber(argv[3]))
     THEN pc' = "left" /\ UNCHANGED <<curaddr, endaddr>>
     ELSE LET start == Numbers[argv[2][1]]
              end == Numbers[argv[3][1]] IN
          IF start > end THEN pc' = "left" /\ UNCHANGED <<curaddr, endaddr>>
          ELSE pc' = "show" /\ curaddr' = RoundDown(start) /\ endaddr' = RoundUp(end)
  /\ UNCHANGED <<line, at, argv, shown>>

InRange(a, end) == a <= end

\* One page of the loop.  When the last page of memory is in the range the
\* address wraps and the loop never ends; the model stops when it comes back.
Show ==
  /\ pc = "show"
  /\ IF ~InRange(curaddr, endaddr) THEN pc' = "prompt" /\ UNCHANGED <<curaddr, shown>>
     ELSE /\ shown' = Append(shown, <<curaddr \div PGSIZE, curaddr \div PGSIZE \in Mapped>>)
          /\ curaddr' = (curaddr + PGSIZE) % Space
          /\ pc' = IF curaddr + PGSIZE = Space THEN "hung" ELSE "show"
  /\ UNCHANGED <<line, at, argv, endaddr>>

Init ==
  /\ line \in Lines
  /\ pc = "parse" /\ at = 1 /\ argv = <<>> /\ curaddr = 0 /\ endaddr = 0 /\ shown = <<>>

Next == Gobble \/ Word \/ EndOfLine \/ Run \/ Show

Spec == Init /\ [][Next]_vars

-----------------------------------------------------------------------------
(* Properties *)

\* The words of the line, by their places.
Begins == {k \in 1 .. Len(line) : ~Blank(k) /\ (k = 1 \/ Blank(k - 1))}

\* A command runs with the words of the line and room for the null pointer
\* that ends argv; a line with more words runs nothing.
ArgvIsWords ==
  /\ Len(argv) + 1 <= MAXARGS
  /\ pc \in {"run", "show", "left", "hung"} =>
       LET starts == SetToSortSeq(Begins, LAMBDA x, y : x < y) IN
       /\ Len(argv) = Len(starts)
       /\ \A i \in 1 .. Len(starts) : \A j \in 1 .. Len(argv[i]) :
            argv[i][j] = line[starts[i] + j - 1]
       /\ FlattenSeq(argv) = SelectSeq(line, LAMBDA c : c # " ")

\* showmappings lists every page of the range once, in order, with what the
\* page table says, and nothing before it; when the end is not at a page
\* boundary it lists one page more.  An end inside the last page of memory
\* rounds up to 0, and the range is lost.
ShowsTheRange ==
  pc = "prompt" /\ shown # <<>> /\ Numbers[argv[3][1]] <= Space - PGSIZE =>
    LET first == Numbers[argv[2][1]] \div PGSIZE
        end == Numbers[argv[3][1]]
        last == end \div PGSIZE + (IF end % PGSIZE = 0 THEN 0 ELSE 1) IN
    shown = [i \in 1 .. last - first + 1 |-> <<first + i - 1, first + i - 1 \in Mapped>>]
==============================================================================

------------------------------ MODULE ForkPrograms ------------------------------
(***************************************************************************)
(* Test programs of lab4/user that fork and do not send: forktree, spin    *)
(* and stresssched, and the buffer through which programs print            *)
(* (lib/printf.c).  A process is a stack of calls; fork() copies it.  The  *)
(* processes interleave in any order.                                      *)
(***************************************************************************)
EXTENDS Integers, Sequences, FiniteSets

CONSTANTS
  Program,     \* of "forktree", "spin", "stresssched", "printers"
  DEPTH,       \* forktree
  Children,    \* stresssched
  Yields,      \* spin
  BufSize,     \* characters of struct printbuf
  Lines        \* printers: what two processes print

VARIABLES
  program,
  stack,     \* process -> its calls, innermost last; <<>> when it is gone
  counter,   \* process -> its variable counter
  born,      \* processes so far
  buf,       \* process -> characters collected by cprintf
  console    \* what was printed: <<process, text>>

vars == <<program, stack, counter, born, buf, console>>

NENV == 2 ^ (DEPTH + 1) + Children
Proc == 1 .. NENV

ForkProgramsAssumption ==
  DEPTH \in Nat /\ Children \in Nat /\ Yields \in Nat /\ BufSize \in Nat \ {0, 1}

-----------------------------------------------------------------------------

Running(e) == stack[e] # <<>>
Top(e) == stack[e][Len(stack[e])]
At(prog, e, pc) == program = prog /\ Running(e) /\ Top(e).pc = pc
Becomes(e, frame) == [stack[e] EXCEPT ![Len(stack[e])] = frame]
Goto(e, pc) == Becomes(e, [Top(e) EXCEPT !.pc = pc])
Step(e, calls) == stack' = [stack EXCEPT ![e] = calls] /\ UNCHANGED <<program, born>>

\* fork(): the child has its own copy of everything.
Fork(e, own, childs) ==
  /\ born < NENV
  /\ born' = born + 1
  /\ stack' = [stack EXCEPT ![e] = own, ![born + 1] = childs]
  /\ counter' = [counter EXCEPT ![born + 1] = counter[e]]
  /\ UNCHANGED <<program, buf, console>>

Say(e, text) == console' = Append(console, <<e, text>>)
Quiet == UNCHANGED <<counter, buf, console>>

\* A child exits after its forktree, the root returns from umain.
AfterTree(e) == <<>>

\* forktree(cur): print, then a child for each digit; a name of length DEPTH
\* gets none.
TreePrint(e) ==
  /\ At("forktree", e, "print")
  /\ Step(e, IF Len(Top(e).cur) < DEPTH THEN Goto(e, "left") ELSE AfterTree(e))
  /\ Say(e, Top(e).cur) /\ UNCHANGED <<counter, buf>>

\* forkchild(cur, digit): the child calls forktree on the longer name.
Forkchild(e, place, digit, next) ==
  /\ At("forktree", e, place)
  /\ LET own == Goto(e, next) IN
     Fork(e, own, Append(own, [pc |-> "print", cur |-> Append(Top(e).cur, digit)]))

TreeEnd(e) == At("forktree", e, "end") /\ Step(e, AfterTree(e)) /\ Quiet

-----------------------------------------------------------------------------

\* spin: fork, yield, destroy the child, which never ends by itself.
SpinFork(e) ==
  /\ At("spin", e, "fork")
  /\ Fork(e, Goto(e, "yield"), Goto(e, "spin"))

SpinYield(e) ==
  /\ At("spin", e, "yield")
  /\ IF Top(e).n < Yields THEN Step(e, Becomes(e, [Top(e) EXCEPT !.n = @ + 1])) ELSE Step(e, Goto(e, "kill"))
  /\ Quiet

Killed == 2

SpinKill(e) ==
  /\ At("spin", e, "kill")
  /\ stack' = [x \in Proc |-> IF x \in {e, Killed} THEN <<>> ELSE stack[x]]
  /\ UNCHANGED <<program, born>> /\ Quiet

-----------------------------------------------------------------------------

\* A child breaks out of the loop.
LeavesLoop(frame) == [frame EXCEPT !.pc = "wait"]

\* stresssched: the parent forks and ends.
StressFork(e) ==
  /\ At("stresssched", e, "fork")
  /\ IF Top(e).n = Children THEN Step(e, <<>>) /\ Quiet
     ELSE Fork(e, Becomes(e, [Top(e) EXCEPT !.n = @ + 1]), Becomes(e, LeavesLoop(Top(e))))

\* The children wait until the parent's slot is free, then count.
StressWait(e) ==
  /\ At("stresssched", e, "wait") /\ ~Running(1)
  /\ Step(e, Becomes(e, [Top(e) EXCEPT !.pc = "count", !.n = 0])) /\ Quiet

\* counter++ in two instructions, the register in n.
StressLoad(e) ==
  /\ At("stresssched", e, "count")
  /\ IF counter[e] < 2 THEN Step(e, Becomes(e, [Top(e) EXCEPT !.pc = "store", !.n = counter[e] + 1]))
     ELSE Step(e, <<>>)
  /\ Quiet

StressStore(e) ==
  /\ At("stresssched", e, "store")
  /\ counter' = [counter EXCEPT ![e] = Top(e).n]
  /\ Step(e, Goto(e, "count")) /\ UNCHANGED <<buf, console>>

-----------------------------------------------------------------------------

\* One place stays unused.
IsFull(b) == Len(b) = BufSize - 1

\* putch: collect a character; a full buffer is printed by one system call.
Putch(e) ==
  /\ At("printers", e, "print") /\ Top(e).n < Len(Lines[e])
  /\ LET b == Append(buf[e], Lines[e][Top(e).n + 1]) IN
     IF IsFull(b) THEN Say(e, b) /\ buf' = [buf EXCEPT ![e] = <<>>]
     ELSE buf' = [buf EXCEPT ![e] = b] /\ UNCHANGED console
  /\ Step(e, Becomes(e, [Top(e) EXCEPT !.n = @ + 1])) /\ UNCHANGED counter

\* vcprintf prints the rest.
Vcprintf(e) ==
  /\ At("printers", e, "print") /\ Top(e).n = Len(Lines[e])
  /\ Say(e, buf[e]) /\ buf' = [buf EXCEPT ![e] = <<>>]
  /\ Step(e, <<>>) /\ UNCHANGED counter

First == [forktree |-> [pc |-> "print", cur |-> <<>>], spin |-> [pc |-> "fork", n |-> 0],
          stresssched |-> [pc |-> "fork", n |-> 0], printers |-> [pc |-> "print", n |-> 0]]

Init ==
  /\ program \in Program
  /\ born = IF program = "printers" THEN Len(Lines) ELSE 1
  /\ stack = [e \in Proc |-> IF e <= born THEN <<First[program]>> ELSE <<>>]
  /\ counter = [e \in Proc |-> 0] /\ buf = [e \in Proc |-> <<>>] /\ console = <<>>

Next ==
  \E e \in Proc :
    \/ TreePrint(e) \/ Forkchild(e, "left", 0, "right") \/ Forkchild(e, "right", 1, "end") \/ TreeEnd(e)
    \/ SpinFork(e) \/ SpinYield(e) \/ SpinKill(e)
    \/ StressFork(e) \/ StressWait(e) \/ StressLoad(e) \/ StressStore(e)
    \/ Putch(e) \/ Vcprintf(e)

Spec == Init /\ [][Next]_vars

-----------------------------------------------------------------------------
(* Properties *)

Names == UNION {[1 .. k -> 0 .. 1] : k \in 0 .. DEPTH}
Said(name) == {k \in DOMAIN console : console[k][2] = name}
AllGone == \A e \in Proc : ~Running(e)

\* forktree prints every name of the tree once, in whatever order its
\* processes run, and a name never before the name that it extends.
TreePrintedOnce ==
  program = "forktree" =>
    /\ \A name \in Names : Cardinality(Said(name)) <= 1
    /\ AllGone => \A name \in Names : Said(name) # {}
    /\ \A k \in DOMAIN console : console[k][2] # <<>> =>
         \E j \in 1 .. k - 1 : console[j][2] = SubSeq(console[k][2], 1, Len(console[k][2]) - 1)

\* spin and stresssched end: the child that spins is killed, and with the
\* expected counters, in as many children as were asked for.
SpinnersEnd ==
  /\ program = "spin" /\ ~Running(1) => ~Running(2)
  /\ program = "stresssched" =>
       /\ born <= Children + 1
       /\ AllGone => born = Children + 1 /\ \A e \in 2 .. born : counter[e] = 2

\* What a process prints comes out in order and, up to BufSize - 1 characters,
\* in one piece ("ONE system call to print all of them", lib/printf.c:14).
Printed(e) == LET mine == SelectSeq(console, LAMBDA x : x[1] = e)
                  text[k \in 0 .. Len(mine)] == IF k = 0 THEN <<>> ELSE text[k - 1] \o mine[k][2] IN
              text[Len(mine)]

LinesInOnePiece ==
  program = "printers" =>
    \A e \in DOMAIN Lines :
      /\ ~Running(e) => Printed(e) = Lines[e]
      /\ Len(Lines[e]) < BufSize =>
           Cardinality({k \in DOMAIN console : console[k][1] = e /\ console[k][2] # <<>>}) <= 1
==============================================================================

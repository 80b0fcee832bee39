---------------------------- MODULE UserException ----------------------------
(***************************************************************************)
(* A user-mode page fault in lab 4: page_fault_handler (kern/trap.c)       *)
(* pushes a UTrapframe on the exception stack and enters _pgfault_upcall   *)
(* (lib/pfentry.S), which calls the C handler and then resumes the         *)
(* faulting instruction without the kernel.  The handler may fault itself, *)
(* and so may the upcall when it stores to a copy-on-write user stack.     *)
(*                                                                         *)
(* Memory is a set of words with word addresses: the exception stack is    *)
(* 0..XTop-1, a user stack lies above it, and code has addresses above     *)
(* that.  Instructions between which no fault can fall are one step.       *)
(***************************************************************************)
EXTENDS Integers, Sequences, SequencesExt

CONSTANTS
  XTop,      \* words of the exception stack page (1024 in the code)
  Locals,    \* how many words the C handler may have on the stack when it faults
  Programs   \* see Program

\* Programs: one with a handler; user/faultnostack.c; user/faultbadhandler.c
\* (and faultevilhandler.c), whose upcall cannot be executed; one without upcall.
Program == {"handler", "nostack", "badhandler", "noupcall"}

FrameWords == 13   \* sizeof(struct UTrapframe) / 4

UserExceptionAssumption ==
  /\ XTop \in Nat /\ XTop >= FrameWords
  /\ Locals \subseteq Nat /\ Programs \subseteq Program

VARIABLES
  program,  \* the program that runs
  regs,     \* eip, esp, eflags and the eight registers of pushal
  mem,      \* all words of the two stacks
  faults,   \* history: registers and memory at each fault not yet resumed
  dead      \* env_destroy was called

vars == <<program, regs, mem, faults, dead>>

XStack == 0 .. XTop - 1
UserTop == 2 * XTop                   \* one past the user stack
UserStack == UserTop - 4 .. UserTop - 1
Addr == XStack \cup UserStack

\* Instructions.
User == 1000       \* the faulting instruction of the program
Upcall == 1010     \* env_pgfault_upcall
AfterCall == 1011  \* addl $4, %esp of _pgfault_upcall
StoreEip == 1012   \* movl %eax, (%ebp)
Resume == 1013     \* what follows it
Handler == 1020    \* the C handler

\* Registers, all different, of code that runs at depth d, by pushal's order:
\* edi, esi, ebp, (esp), ebx, edx, ecx, eax.
Gpr(d) == [i \in 1..8 |-> 2000 + 10 * d + i]
Flags(d) == 3000 + d
ebp == 3
eax == 8

Init ==
  /\ program \in Programs
  /\ \E esp \in {UserTop - 1, UserTop - 2} :
       regs = [eip |-> User, esp |-> esp, eflags |-> Flags(0), gpr |-> Gpr(0)]
  /\ mem = [a \in Addr |-> 4000 + a]
  /\ faults = <<>>
  /\ dead = FALSE

\* The word at an address, 0 outside the stacks.
Word(a) == IF a \in Addr THEN mem[a] ELSE 0

Depth == Len(faults)
At(i) == ~dead /\ regs.eip = i

-----------------------------------------------------------------------------
(* Kernel *)

\* Mutant of FrameAddress: no scratch word.
Mut_FrameNoScratch(esp) ==
  IF esp \in XStack THEN esp - FrameWords ELSE XTop - FrameWords

\* Mutant of FrameAddress: a fault on the exception stack is not told apart.
Mut_FrameOnTop(esp) == XTop - FrameWords

\* Where the frame goes: below the trap-time esp and one word of scratch space
\* if that is in the exception stack, at its top otherwise.
FrameAddress(esp) ==
  IF esp \in XStack THEN esp - 1 - FrameWords ELSE XTop - FrameWords

\* The words of a UTrapframe: fault_va, err (tf_trapno), regs, eip, eflags, esp.
Frame(r) == <<0, 14>> \o r.gpr \o <<r.eip, r.eflags, r.esp>>

\* page_fault_handler; user_mem_assert lets the frame pass if all of it lies in
\* the exception stack.
PageFault ==
  LET utf == FrameAddress(regs.esp)
      fits == utf \in XStack /\ program # "nostack" IN
  IF program = "noupcall" \/ ~fits
  THEN dead' = TRUE /\ UNCHANGED <<program, regs, mem, faults>>
  ELSE /\ mem' = [a \in Addr |-> IF a \in utf .. utf + FrameWords - 1
                                 THEN Frame(regs)[a - utf + 1] ELSE mem[a]]
       /\ regs' = [regs EXCEPT !.eip = Upcall, !.esp = utf]
       /\ faults' = Append(faults, [regs |-> regs, mem |-> mem])
       /\ UNCHANGED <<program, dead>>

-----------------------------------------------------------------------------
(* User code *)

\* The program, the C handler and the store of the upcall fault; an upcall that
\* cannot be fetched does so at its first instruction.
Fault ==
  /\ \/ \E i \in {User, Handler, StoreEip} : At(i)
     \/ At(Upcall) /\ program = "badhandler"
  /\ PageFault

\* pushl %esp; movl _pgfault_handler, %eax; call *%eax; and the prologue of
\* the handler, which pushes ebp and makes room for n words.
CallHandler ==
  LET top == regs.esp - 3 IN
  /\ At(Upcall) /\ program # "badhandler" /\ top >= 0
  /\ mem' = [mem EXCEPT ![top + 2] = regs.esp, ![top + 1] = AfterCall, ![top] = regs.gpr[ebp]]
  /\ \E n \in {k \in Locals : k <= top} :
       regs' = [eip |-> Handler, esp |-> top - n, eflags |-> Flags(Depth),
                gpr |-> [Gpr(Depth) EXCEPT ![ebp] = top]]
  /\ UNCHANGED <<program, faults, dead>>

\* One of the pushes leaves the exception stack: a fault at an esp that is
\* still in it.
PushFault == At(Upcall) /\ program # "badhandler" /\ regs.esp < 3 /\ PageFault

\* leave; ret.
HandlerReturns ==
  LET top == regs.gpr[ebp] IN
  /\ At(Handler)
  /\ regs' = [regs EXCEPT !.eip = mem[top + 1], !.esp = top + 2, !.gpr[ebp] = mem[top]]
  /\ UNCHANGED <<program, mem, faults, dead>>

\* addl $4, %esp; movl 48(%esp), %ebp; subl $4, %ebp; movl %ebp, 48(%esp);
\* movl 40(%esp), %eax.
Adjust ==
  LET utf == regs.esp + 1
      esp == mem[utf + 12] - 1 IN
  /\ At(AfterCall)
  /\ mem' = [mem EXCEPT ![utf + 12] = esp]
  /\ regs' = [regs EXCEPT !.eip = StoreEip, !.esp = utf,
                          !.gpr[ebp] = esp, !.gpr[eax] = mem[utf + 10]]
  /\ UNCHANGED <<program, faults, dead>>

\* movl %eax, (%ebp), when it does not fault.
Store ==
  /\ At(StoreEip)
  /\ mem' = [mem EXCEPT ![regs.gpr[ebp]] = regs.gpr[eax]]
  /\ regs' = [regs EXCEPT !.eip = Resume]
  /\ UNCHANGED <<program, faults, dead>>

\* addl $8, %esp; popal; addl $4, %esp; popfl; popl %esp; ret.
Return ==
  LET utf == regs.esp
      esp == mem[utf + 12] IN
  /\ At(Resume)
  /\ regs' = [gpr |-> [i \in 1..8 |-> mem[utf + 1 + i]],
              eflags |-> mem[utf + 11], eip |-> Word(esp), esp |-> esp + 1]
  /\ faults' = Front(faults)
  /\ UNCHANGED <<program, mem, dead>>

Next ==
  \/ Fault \/ CallHandler \/ PushFault \/ HandlerReturns \/ Adjust \/ Store \/ Return

Spec == Init /\ [][Next]_vars

-----------------------------------------------------------------------------
(* Properties *)

\* Registers hold words, and esp points into one of the stacks.
TypeOK ==
  /\ program \in Program /\ dead \in BOOLEAN
  /\ regs \in [eip : {User, Upcall, AfterCall, StoreEip, Resume, Handler},
               esp : Addr \cup {UserTop}, eflags : Nat, gpr : [1..8 -> Nat]]
  /\ mem \in [Addr -> Nat]
  /\ faults \in Seq([regs : [eip : Nat, esp : Addr, eflags : Nat, gpr : [1..8 -> Nat]],
                     mem : [Addr -> Nat]])

\* The words in use on the stack that esp points into.
InUse(esp) == {a \in (IF esp \in XStack THEN XStack ELSE UserStack) : a >= esp}

\* Whenever the upcall returns, the innermost fault is undone to the last bit:
\* every register, the flags, eip, esp and all words that were in use on the
\* stack are as they were (lib/pfentry.S, the test user/faultregs.c).
ResumeExactStep ==
  Len(faults') < Len(faults) =>
     LET at == Last(faults) IN
     /\ regs'.eip = at.regs.eip /\ regs'.esp = at.regs.esp /\ regs'.eflags = at.regs.eflags
     /\ \A i \in 1..8 \ {4} : regs'.gpr[i] = at.regs.gpr[i]
     /\ \A a \in InUse(at.regs.esp) : mem'[a] = at.mem[a]

\* The upcall of fault k is past Adjust.
Adjusted(k) ==
  IF k = Depth THEN regs.eip \in {StoreEip, Resume} ELSE faults[k + 1].regs.eip = StoreEip

\* What the handlers of all unresolved faults can read through utf stays as
\* the kernel wrote it, however deep they nest; only the upcall itself moves
\* utf_esp to its scratch word, once (kern/trap.c:395).
FramesIntact ==
  \A k \in 1..Depth :
    LET r == faults[k].regs
        utf == FrameAddress(r.esp) IN
    \A i \in 1..FrameWords :
      mem[utf + i - 1] = Frame(r)[i] - (IF i = 13 /\ Adjusted(k) THEN 1 ELSE 0)

\* However a handler faults itself, frames fit in the exception stack: the kernel
\* refuses the one that does not (kern/trap.c:399).
FaultsFit == Depth <= (XTop + 1) \div (FrameWords + 1)

\* A program without an upcall, without an exception stack or with an upcall
\* that faults itself is destroyed in the end (comment of user/faultbadhandler.c).
BadHandlersDie == program # "handler" /\ ~ENABLED Next => dead
==============================================================================

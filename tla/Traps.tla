-------------------------------- MODULE Traps ---------------------------------
(***************************************************************************)
(* From an instruction of a user program into the kernel and back, on one  *)
(* CPU of labs 3 and 4: the gates of trap_init, the stubs of trapentry.S,  *)
(* trap(), trap_dispatch(), the first system calls with user_mem_check,    *)
(* and env_pop_tf.  The programs are those of user/ that the grade scripts *)
(* run, and one that prints an arbitrary piece of memory.                  *)
(*                                                                         *)
(* A register, or a word on the kernel stack, is an integer.  The address  *)
(* space is scaled down to 16 pages of 4 bytes.                            *)
(***************************************************************************)
EXTENDS Integers, Sequences, FiniteSetsExt

CONSTANTS
  Lab,       \* subset of {3, 4}
  Program,   \* subset of Programs
  PrintAt,   \* the addresses ...
  PrintLen   \* ... and lengths that the program "print" passes to sys_cputs

VARIABLES
  lab, program,
  others,   \* other CPUs run programs, so that this one may halt
  place,    \* what the CPU is doing, see Place
  regs,     \* its registers
  frame,    \* the words on the kernel stack, the first one pushed first
  env,      \* curenv: env_status and env_tf
  arg,      \* the arguments of "print"
  event,    \* history: the trap that is being handled
  ended     \* history: how the program ended

vars == <<lab, program, others, place, regs, frame, env, arg, event, ended>>

\* "stub": at the handler of the vector; "popped": iret was executed.
Place == {"user", "stub", "alltraps", "trap", "dispatch", "return", "halted", "monitor", "panic"}

-----------------------------------------------------------------------------
(* Address space *)

PGSIZE == 4
Space == 16 * PGSIZE
ULIM == 11 * PGSIZE
TEXT == 2 * PGSIZE
HELLO == 3 * PGSIZE + 1      \* the string of buggyhello2, and bigarray
KERNEL == 13 * PGSIZE        \* for 0xf0100000 and 0xf010000c

\* Bits of the page table entry of an address.
Pte(va) == CASE va \div PGSIZE = 2 -> {"P", "U"}
             [] va \div PGSIZE \in {3, 9} -> {"P", "U", "W"}
             [] va \div PGSIZE = 10 -> {"P", "U"}            \* UVPT
             [] va \div PGSIZE \in 12..15 -> {"P", "W"}
             [] OTHER -> {}

-----------------------------------------------------------------------------
(* Programs *)

Op(op, a, b) == [op |-> op, a |-> a, b |-> b]
Getenvid == Op("sys", "getenvid", <<>>)
Destroy == Op("sys", "destroy", <<>>)
Cputs(s, len) == Op("sys", "cputs", <<s, len>>)

\* The umain of each program.
divzero == <<Op("div", 0, 0)>>
softint == <<Op("int", 14, 0)>>
badsegment == <<Op("seg", 40, 0)>>
breakpoint == <<Op("int", 3, 0)>>
faultread == <<Op("load", 0, 0), Cputs(HELLO, 2)>>
faultreadkernel == <<Op("load", KERNEL, 0), Cputs(HELLO, 2)>>
faultwrite == <<Op("store", 0, 0)>>
faultwritekernel == <<Op("store", KERNEL, 0)>>
testbss == <<Op("store", HELLO, 0), Op("load", HELLO, 0), Op("store", HELLO + PGSIZE, 0)>>
hello == <<Cputs(HELLO, 2), Cputs(HELLO, 2)>>
buggyhello == <<Cputs(1, 1)>>
buggyhello2 == <<Cputs(HELLO, 2 * PGSIZE)>>
evilhello == <<Cputs(KERNEL, 4)>>
yield == <<Op("sys", "yield", <<>>), Op("sys", "yield", <<>>)>>
unknown == <<Op("sys", "none", <<>>)>>
print == <<Cputs(arg.va, arg.len)>>

Body ==
  [divzero |-> divzero, softint |-> softint, badsegment |-> badsegment,
   breakpoint |-> breakpoint, faultread |-> faultread,
   faultreadkernel |-> faultreadkernel, faultwrite |-> faultwrite,
   faultwritekernel |-> faultwritekernel, testbss |-> testbss, hello |-> hello,
   buggyhello |-> buggyhello, buggyhello2 |-> buggyhello2, evilhello |-> evilhello,
   yield |-> yield, unknown |-> unknown, print |-> print]

Programs == {"divzero", "softint", "badsegment", "breakpoint", "faultread", "faultreadkernel",
             "faultwrite", "faultwritekernel", "testbss", "hello", "buggyhello", "buggyhello2",
             "evilhello", "yield", "unknown", "print"}

TrapsAssumption ==
  /\ Lab \subseteq {3, 4} /\ Program \subseteq Programs
  /\ PrintAt \subseteq Nat /\ PrintLen \subseteq Nat \ {0}

\* libmain and exit around umain.
Code == <<Getenvid>> \o Body[program] \o <<Destroy>>

-----------------------------------------------------------------------------
(* The IDT *)

T_DIVIDE == 0
T_BRKPT == 3
T_GPFLT == 13
T_PGFLT == 14
T_SYSCALL == 48
IRQ_TIMER == 32
IRQ_KBD == 33
IRQ_SPURIOUS == 39

Exceptions == (0..19) \ {9, 15}
Irqs == {32, 33, 36, 39, 46, 51}

\* For which exceptions the CPU pushes an error code (Intel's manual).
CpuErr == {8, 10, 11, 12, 13, 14, 17}

\* trap_init: the gate of vector n, if there is one.
Gate(n) ==
  IF n \in Exceptions \cup {T_SYSCALL} \cup (IF lab = 4 THEN Irqs ELSE {})
  THEN {[dpl |-> IF n \in {T_BRKPT, T_SYSCALL} THEN 3 ELSE 0,
         istrap |-> lab = 3 /\ n # T_SYSCALL]}
  ELSE {}

\* What a TRAPHANDLER, or a TRAPHANDLER_NOEC, pushes.
StubPushes(n) == IF n \in {8, 10, 11, 12, 13, 14, 17} THEN <<n>> ELSE <<0, n>>

\* The timer, a key, and noise interrupt lab 4; lab 3 keeps FL_IF clear.
Interrupts == {IRQ_TIMER, IRQ_KBD, IRQ_SPURIOUS}

-----------------------------------------------------------------------------
(* The CPU *)

FL_IF == 512
UserSel == 27       \* GD_UT | 3; GD_UD | 3 is 35
KernelSel == 8      \* GD_KT; GD_KD is 16
Mode(cs) == cs % 4

User0 == [eip |-> 1, eax |-> 0, gpr |-> 77, esp |-> 44, eflags |-> IF lab = 4 THEN FL_IF ELSE 0,
          cs |-> UserSel, ss |-> 35, ds |-> 35, es |-> 35]

NoEvent == [vec |-> -1, err |-> 0, va |-> 0, regs |-> <<>>]
NotEnded == [how |-> "not", vec |-> -1, err |-> 0, va |-> 0]

Init ==
  /\ lab \in Lab /\ program \in Program
  /\ others \in (IF lab = 4 THEN BOOLEAN ELSE {FALSE})
  /\ arg \in (IF program = "print" THEN [va : PrintAt, len : PrintLen] ELSE {[va |-> 0, len |-> 0]})
  /\ place = "user" /\ regs = User0 /\ frame = <<>>
  /\ env = [status |-> "RUNNING", tf |-> <<>>]
  /\ event = NoEvent /\ ended = NotEnded

\* An exception or interrupt with vector n: what the CPU pushes, from user
\* mode on the stack of the TSS.  It resumes at eip.
Raise(n, err, va, eip) ==
  LET g == CHOOSE x \in Gate(n) : TRUE
      r == [regs EXCEPT !.eip = eip] IN
  /\ frame' = (IF Mode(r.cs) = 3 THEN <<r.ss, r.esp>> ELSE frame)
              \o <<r.eflags, r.cs, r.eip>> \o (IF n \in CpuErr THEN <<err>> ELSE <<>>)
  /\ regs' = [regs EXCEPT !.cs = KernelSel, !.ss = IF Mode(r.cs) = 3 THEN 16 ELSE @,
                          !.eflags = IF g.istrap THEN @ ELSE 0]
  /\ event' = [vec |-> n, err |-> err, va |-> va, regs |-> r]
  /\ place' = "stub"
  /\ UNCHANGED <<lab, program, others, env, arg, ended>>

Next1 == regs.eip + 1
AtOp(op) == place = "user" /\ Code[regs.eip].op = op
Advance ==
  /\ regs' = [regs EXCEPT !.eip = Next1]
  /\ UNCHANGED <<lab, program, others, place, frame, env, arg, event, ended>>

\* int n: without a gate that user mode may use, a general protection fault.
SoftInt(n) ==
  IF \E g \in Gate(n) : g.dpl = 3 THEN Raise(n, 0, 0, Next1)
  ELSE Raise(T_GPFLT, 8 * n + 2, 0, regs.eip)

\* A load or store, which faults unless the page table lets user mode do it.
Access(va, bit) ==
  IF {"P", "U"} \cup bit \subseteq Pte(va) THEN Advance
  ELSE Raise(T_PGFLT, 4 + (IF "W" \in bit THEN 2 ELSE 0) + (IF "P" \in Pte(va) THEN 1 ELSE 0),
             va, regs.eip)

Execute ==
  LET i == Code[regs.eip] IN
  \/ AtOp("div") /\ Raise(T_DIVIDE, 0, 0, regs.eip)
  \/ AtOp("int") /\ SoftInt(i.a)
  \/ AtOp("seg") /\ Raise(T_GPFLT, i.a, 0, regs.eip)
  \/ AtOp("load") /\ Access(i.a, {})
  \/ AtOp("store") /\ Access(i.a, {"W"})
  \/ AtOp("sys") /\ SoftInt(T_SYSCALL)

Irq(n) ==
  /\ place \in {"user", "halted"} /\ regs.eflags = FL_IF
  /\ Raise(n, 0, 0, regs.eip)

-----------------------------------------------------------------------------
(* trapentry.S and trap() *)

\* The stub of the vector.
Stub ==
  /\ place = "stub"
  /\ frame' = frame \o StubPushes(event.vec)
  /\ place' = "alltraps"
  /\ UNCHANGED <<lab, program, others, regs, env, arg, event, ended>>

\* _alltraps: push ds, es and pushal, load the kernel's data segments.
AllTraps ==
  /\ place = "alltraps"
  /\ frame' = frame \o <<regs.ds, regs.es, regs.eax, regs.gpr>>
  /\ regs' = [regs EXCEPT !.ds = 16, !.es = 16]
  /\ place' = "trap"
  /\ UNCHANGED <<lab, program, others, env, arg, event, ended>>

\* The words on the stack as a struct Trapframe; above the stack is memory
\* that is not ours.
Trapframe(s) ==
  LET Word(i) == IF i < Len(s) THEN s[Len(s) - i] ELSE -1 IN
  [gpr |-> Word(0), eax |-> Word(1), es |-> Word(2), ds |-> Word(3), trapno |-> Word(4),
   err |-> Word(5), eip |-> Word(6), cs |-> Word(7), eflags |-> Word(8),
   esp |-> Word(9), ss |-> Word(10)]

Stop(where) == place' = where /\ UNCHANGED <<lab, program, others, regs, arg, event>>

\* sched_yield when curenv is gone.
Deserted == IF others THEN "halted" ELSE "monitor"

\* trap(), up to trap_dispatch.
Trap ==
  LET tf == Trapframe(frame) IN
  /\ place = "trap"
  /\ IF regs.eflags # 0 THEN Stop("panic") /\ UNCHANGED <<frame, env, ended>>
     ELSE IF Mode(tf.cs) = 0 THEN Stop("dispatch") /\ UNCHANGED <<frame, env, ended>>
     ELSE IF lab = 4 /\ env.status = "DYING"
     THEN /\ env' = [env EXCEPT !.status = "FREE"]
          /\ place' = Deserted
          /\ frame' = <<0, 0>> /\ regs' = [regs EXCEPT !.eflags = FL_IF]
          /\ ended' = [ended EXCEPT !.how = "killed"]
          /\ UNCHANGED <<lab, program, others, arg, event>>
     ELSE /\ env' = [env EXCEPT !.tf = tf]
          /\ Stop("dispatch") /\ UNCHANGED <<frame, ended>>

\* env_destroy(curenv): lab 4 looks for another environment, lab 3 enters the
\* monitor for good.
EnvDestroy(how, va) ==
  /\ env' = [env EXCEPT !.status = "FREE"]
  /\ ended' = [how |-> how, vec |-> env.tf.trapno, err |-> env.tf.err, va |-> va]
  /\ place' = Deserted
  /\ frame' = <<0, 0>> /\ regs' = [regs EXCEPT !.eflags = FL_IF]
  /\ UNCHANGED <<lab, program, others, arg, event>>

Kernel == Mode(Trapframe(frame).cs) = 0
Trapno == Trapframe(frame).trapno

\* user_mem_check: {}, or the address it reports.  va + len wraps around.
UserMemCheck(va, len, perm) ==
  LET start == va \div PGSIZE
      end == ((va + len + PGSIZE - 1) % Space) \div PGSIZE
      bad == {p \in start .. end - 1 : ~(perm \cup {"P"} \subseteq Pte(p * PGSIZE)) \/ p * PGSIZE >= ULIM} IN
  IF bad = {} THEN {} ELSE {IF Min(bad) = start THEN va ELSE Min(bad) * PGSIZE}

Return(eax) ==
  /\ env' = [env EXCEPT !.tf.eax = eax]
  /\ Stop("return") /\ UNCHANGED <<frame, ended>>

\* syscall(), as far as the programs use it; lab 3 has no sys_yield.  The
\* environment's id is 1000.
E_INVAL == -3
Syscall ==
  LET i == Code[env.tf.eip - 1]
      bad == UserMemCheck(i.b[1], i.b[2], {"U"}) IN
  CASE i.a = "getenvid" -> Return(1000)
    [] i.a = "destroy" -> EnvDestroy("exit", 0)
    [] i.a = "cputs" -> IF bad = {} THEN Return(0)
                        ELSE EnvDestroy("user_mem_assert", CHOOSE va \in bad : TRUE)
    [] i.a = "yield" /\ lab = 4 -> Stop("return") /\ UNCHANGED <<frame, env, ended>>
    [] OTHER -> Return(E_INVAL)

\* page_fault_handler without an upcall (see UserException for the rest).
PageFaultHandler ==
  IF Kernel THEN Stop("panic") /\ UNCHANGED <<frame, env, ended>>
  ELSE EnvDestroy("fault", event.va)

\* The rest of trap_dispatch: an unexpected trap.
Unexpected ==
  IF Kernel THEN Stop("panic") /\ UNCHANGED <<frame, env, ended>>
  ELSE EnvDestroy("trap", 0)

\* trap_dispatch.
TrapDispatch ==
  /\ place = "dispatch"
  /\ CASE Trapno = T_PGFLT -> PageFaultHandler
       [] Trapno = T_BRKPT -> Stop("monitor") /\ UNCHANGED <<frame, env, ended>>
       [] Trapno = T_SYSCALL -> Syscall
       [] lab = 4 /\ Trapno \in {IRQ_SPURIOUS, IRQ_TIMER} ->
            Stop("return") /\ UNCHANGED <<frame, env, ended>>
       [] OTHER -> Unexpected

\* The command loop of monitor(tf) ends.
MonitorReturns ==
  /\ place = "monitor" /\ env.status = "RUNNING"
  /\ Stop("return") /\ UNCHANGED <<frame, env, ended>>

\* env_run and env_pop_tf of an environment that is not a zombie.
EnvPopTf ==
  /\ place = "return" /\ env.status = "RUNNING"
  /\ regs' = [eip |-> env.tf.eip, eax |-> env.tf.eax, gpr |-> env.tf.gpr, esp |-> env.tf.esp,
              eflags |-> env.tf.eflags, cs |-> env.tf.cs, ss |-> env.tf.ss,
              ds |-> env.tf.ds, es |-> env.tf.es]
  /\ place' = "user" /\ frame' = <<>>
  /\ UNCHANGED <<lab, program, others, env, arg, event, ended>>

\* sched_halt again, after an interrupt that found nothing to run.
HaltAgain ==
  /\ place = "return" /\ env.status = "FREE"
  /\ frame' = <<0, 0>> /\ regs' = [regs EXCEPT !.eflags = FL_IF]
  /\ place' = Deserted
  /\ UNCHANGED <<lab, program, others, env, arg, event, ended>>

\* Another CPU destroys the environment while it is in user mode.
Killed ==
  /\ others /\ place = "user" /\ env.status = "RUNNING"
  /\ env' = [env EXCEPT !.status = "DYING"]
  /\ UNCHANGED <<lab, program, others, place, regs, frame, arg, event, ended>>

Step == Execute \/ Stub \/ AllTraps \/ Trap \/ TrapDispatch \/ EnvPopTf

Next ==
  \/ Step \/ MonitorReturns \/ HaltAgain \/ Killed
  \/ \E n \in Interrupts : Irq(n)

Spec == Init /\ [][Next]_vars

-----------------------------------------------------------------------------
(* Properties *)

TypeOK ==
  /\ lab \in Lab /\ program \in Program /\ place \in Place
  /\ DOMAIN regs = DOMAIN User0 /\ \A f \in DOMAIN regs : regs[f] \in Int
  /\ regs.eip \in 1 .. Len(Code) /\ regs.eflags \in {0, FL_IF}
  /\ \A i \in DOMAIN frame : frame[i] \in Int
  /\ env.status \in {"RUNNING", "DYING", "FREE"}

\* For every vector, stub and _alltraps lay out exactly the struct Trapframe
\* that trap() reads, whether or not the CPU pushed an error code.
FrameExact ==
  place = "trap" =>
    LET tf == Trapframe(frame)
        r == event.regs IN
    /\ tf.trapno = event.vec /\ tf.err = event.err
    /\ tf.eip = r.eip /\ tf.cs = r.cs /\ tf.eflags = r.eflags
    /\ tf.eax = r.eax /\ tf.gpr = r.gpr /\ tf.ds = r.ds /\ tf.es = r.es
    /\ Mode(r.cs) = 3 => tf.esp = r.esp /\ tf.ss = r.ss

\* Whatever happened in between, a program goes on with the registers it had,
\* but for the result of a system call.
ResumesUnharmedStep ==
  place # "user" /\ place' = "user" =>
     \A f \in DOMAIN regs :
       regs'[f] = event.regs[f] \/ (f = "eax" /\ event.vec = T_SYSCALL)

\* No program, and no interrupt but one, makes the kernel panic: a key that
\* is pressed while CPU 0 is halted is an unhandled trap (kern/trap.c:267;
\* kern/console.c:380 enables it).
KernelSurvives == place = "panic" => event.vec = IRQ_KBD /\ Mode(event.regs.cs) = 0

How(how, vec, err, va) == [how |-> how, vec |-> vec, err |-> err, va |-> va]

\* What the grade scripts expect of their programs.
Graded ==
  [divzero |-> How("trap", 0, 0, 0), softint |-> How("trap", 13, 14 * 8 + 2, 0),
   badsegment |-> How("trap", 13, 40, 0), faultread |-> How("fault", 14, 4, 0),
   faultreadkernel |-> How("fault", 14, 5, KERNEL), faultwrite |-> How("fault", 14, 6, 0),
   faultwritekernel |-> How("fault", 14, 7, KERNEL), testbss |-> How("fault", 14, 6, HELLO + PGSIZE),
   hello |-> How("exit", 48, 0, 0), buggyhello |-> How("user_mem_assert", 48, 0, 1),
   buggyhello2 |-> How("user_mem_assert", 48, 0, 4 * PGSIZE),
   evilhello |-> How("user_mem_assert", 48, 0, KERNEL)]

\* Every test program ends in exactly the way the grade scripts of labs 3
\* and 4 expect and does not get stuck before, unless another CPU kills it or a
\* key is pressed: that ends whichever program is running (kern/trap.c:267).
EndsAsGraded ==
  program \in DOMAIN Graded /\ (ended.how # "not" \/ ~ENABLED Next) =>
    ended = Graded[program] \/ ended.how = "killed" \/ ended.vec = IRQ_KBD

\* sys_cputs accepts a piece of memory exactly if the program may read all
\* its bytes, and reports the first it may not read.
PrintExact ==
  program = "print" /\ ended.how \in {"exit", "user_mem_assert"} =>
    LET bad == {va \in arg.va .. arg.va + arg.len - 1 : ~({"P", "U"} \subseteq Pte(va)) \/ va >= ULIM} IN
    IF bad = {} THEN ended.how = "exit"
    ELSE ended.how = "user_mem_assert" /\ ended.va = Min(bad)
==============================================================================

-------------------------------- MODULE TrapParts --------------------------------
(***************************************************************************)
(* The two ways from a program into code that handles its trap and back,   *)
(* in one specification: through the kernel (Traps, here with the prefix   *)
(* Trap) and through the page fault upcall (UserException, here Upcall).   *)
(* They do not share state in their models: a behaviour is a behaviour of  *)
(* one of them, and the variables of the other stay 0.                     *)
(***************************************************************************)
EXTENDS Integers

CONSTANTS
  Lab, Tests, PrintAt, PrintLen,    \* of Traps
  XTop, Locals, Clients               \* of UserException

VARIABLES
  trapPart,   \* whose behaviour it is
  lab, program, others, place, regs, frame, env, arg, event, ended,
  client, context, memory, faults, dead

Trap == INSTANCE Traps WITH Program <- Tests

Upcall == INSTANCE UserException WITH
  Programs <- Clients, program <- client, regs <- context, mem <- memory

ASSUME TrapPartsAssumption == Trap!TrapsAssumption /\ Upcall!UserExceptionAssumption

-----------------------------------------------------------------------------

kernelVars == <<lab, program, others, place, regs, frame, env, arg, event, ended>>
upcallVars == <<client, context, memory, faults, dead>>
trapVars == <<trapPart, kernelVars, upcallVars>>

KernelIdle ==
  /\ lab = 0 /\ program = 0 /\ others = 0 /\ place = 0 /\ regs = 0 /\ frame = 0 /\ env = 0
  /\ arg = 0 /\ event = 0 /\ ended = 0
UpcallIdle == client = 0 /\ context = 0 /\ memory = 0 /\ faults = 0 /\ dead = 0

TrapIdle == trapPart = "none" /\ KernelIdle /\ UpcallIdle

TrapInit ==
  \/ trapPart = "Traps" /\ Trap!Init /\ UpcallIdle
  \/ trapPart = "UserException" /\ Upcall!Init /\ KernelIdle

TrapNext ==
  \/ trapPart = "Traps" /\ Trap!Next /\ UNCHANGED <<trapPart, upcallVars>>
  \/ trapPart = "UserException" /\ Upcall!Next /\ UNCHANGED <<trapPart, kernelVars>>

TrapSpec == TrapInit /\ [][TrapNext]_trapVars

-----------------------------------------------------------------------------

\* A trap is what the hardware says it is.  The stubs build the struct Trapframe
\* of the trap, no test program makes the kernel panic, and sys_cputs prints just
\* what its caller may read; frames of nested page faults on the exception stack
\* stay whole, and there are never more of them than it has room for.
TrapsAreExact ==
  /\ trapPart = "Traps" => Trap!TypeOK /\ Trap!FrameExact /\ Trap!KernelSurvives /\ Trap!PrintExact
  /\ trapPart = "UserException" => Upcall!TypeOK /\ Upcall!FramesIntact /\ Upcall!FaultsFit

\* What runs goes on as if nothing had happened: a program after a trap (but for
\* the result of a system call), and a program after its page fault handler
\* returned through lib/pfentry.S.
ResumesUnharmed ==
  [][/\ trapPart = "Traps" => Trap!ResumesUnharmedStep
     /\ trapPart = "UserException" => Upcall!ResumeExactStep]_trapVars
================================================================================

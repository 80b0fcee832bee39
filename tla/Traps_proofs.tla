----------------------------- MODULE Traps_proofs -----------------------------
(***************************************************************************)
(* Proofs about traps and the way back (TrapParts).  The page fault upcall *)
(* (module UserException, with the prefix Upcall), for any size of the     *)
(* exception stack, any stack use of the handlers and any depth of nested  *)
(* faults: the frames stay as the kernel wrote them, and every fault is    *)
(* resumed to the last bit.  The kernel's own path (Traps, prefix Trap),   *)
(* for any arguments of sys_cputs: the frame is what trap() reads, no      *)
(* program makes the kernel panic, and every one goes on as it was.        *)
(***************************************************************************)
EXTENDS TrapParts, FiniteSetTheorems, SequenceTheorems, TLAPS

-----------------------------------------------------------------------------
(* Nested page faults: UserException *)

\* The frame of a fault with these registers.
Utf(r) == Upcall!FrameAddress(r.esp)

\* Code at depth d, which handles the fault with registers f, stands at r, and
\* its own words in the memory m are as it left them.
Running(r, m, d, f) ==
  IF d = 0
  THEN r.eip = Upcall!User /\ r.esp \in {Upcall!UserTop - 1, Upcall!UserTop - 2}
  ELSE \/ r.eip = Upcall!Upcall /\ r.esp = Utf(f)
       \/ /\ r.eip = Upcall!Handler /\ r.gpr[Upcall!ebp] = Utf(f) - 3 /\ r.esp \in 0 .. Utf(f) - 3
          /\ m[Utf(f) - 2] = Upcall!AfterCall
       \/ r.eip = Upcall!AfterCall /\ r.esp = Utf(f) - 1 /\ r.esp >= 0
       \/ r.eip = Upcall!StoreEip /\ r.esp = Utf(f) /\ r.gpr[Upcall!ebp] = f.esp - 1
          /\ r.gpr[Upcall!eax] = f.eip
       \/ r.eip = Upcall!Resume /\ r.esp = Utf(f) /\ m[f.esp - 1] = f.eip

\* So do the program, at depth 0, and every handler that a fault interrupted.
RunningOK ==
  /\ Running(context, memory, Upcall!Depth, faults[Upcall!Depth].regs)
  /\ \A k \in 1 .. Upcall!Depth :
       /\ Running(faults[k].regs, faults[k].mem, k - 1, faults[k - 1].regs)
       /\ faults[k].regs.eip \notin {Upcall!AfterCall, Upcall!Resume}

\* Every frame lies in the exception stack, below the frames of the faults before
\* it and what their handlers have on the stack, with a scratch word for each.
NestedOK ==
  \A k \in 1 .. Upcall!Depth :
    /\ Utf(faults[k].regs) \in 0 .. XTop - Upcall!FrameWords
    /\ Utf(faults[k].regs) + (Upcall!FrameWords + 1) * k <= XTop + 1
    /\ \A j \in 1 .. k - 1 : faults[k].regs.esp \in 0 .. Utf(faults[j].regs)

\* Nobody stores to a word that was in use at a fault.
KeptOK ==
  \A k \in 1 .. Upcall!Depth : \A a \in Upcall!InUse(faults[k].regs.esp) : memory[a] = faults[k].mem[a]

\* What is remembered of a fault.
Remembered == [regs : [eip : Nat, esp : Upcall!Addr, eflags : Nat, gpr : [1..8 -> Nat]],
  mem : [Upcall!Addr -> Nat]]

UpcallInv == Upcall!TypeOK /\ RunningOK /\ NestedOK /\ KeptOK /\ Upcall!FramesIntact

-----------------------------------------------------------------------------
(* Addresses and frames *)

LEMMA Geometry ==
  ASSUME Upcall!UserExceptionAssumption
  PROVE  /\ XTop \in Nat /\ XTop >= 13 /\ Upcall!FrameWords = 13
         /\ Upcall!XStack \subseteq Upcall!Addr /\ Upcall!UserStack \subseteq Upcall!Addr
         /\ Upcall!Addr \subseteq Nat
         /\ \A a \in Upcall!UserStack : a > XTop /\ a \notin Upcall!XStack
         /\ Upcall!UserTop - 1 \in Upcall!UserStack /\ Upcall!UserTop - 2 \in Upcall!UserStack
         /\ Upcall!UserTop - 3 \in Upcall!UserStack
         /\ Upcall!UserTop \in Nat
BY DEF Upcall!UserExceptionAssumption, Upcall!FrameWords, Upcall!XStack, Upcall!UserStack,
  Upcall!UserTop, Upcall!Addr

LEMMA Concatenated ==
  ASSUME NEW s \in Seq(Nat), NEW t \in Seq(Nat), NEW st, st = s \o t
  PROVE  /\ st \in Seq(Nat) /\ Len(st) = Len(s) + Len(t)
         /\ \A i \in 1 .. Len(s) : st[i] = s[i]
         /\ \A i \in 1 .. Len(t) : st[Len(s) + i] = t[i]
<1>1. /\ st \in Seq(Nat) /\ Len(st) = Len(s) + Len(t)
      /\ \A i \in 1 .. Len(s) + Len(t) : st[i] = IF i <= Len(s) THEN s[i] ELSE t[i - Len(s)]
  BY ConcatProperties
<1>2. Len(s) \in Nat /\ Len(t) \in Nat
  OBVIOUS
<1>3. \A i \in 1 .. Len(s) : st[i] = s[i]
  BY <1>1, <1>2
<1>4. ASSUME NEW i \in 1 .. Len(t) PROVE st[Len(s) + i] = t[i]
  <2>1. Len(s) + i \in 1 .. Len(s) + Len(t) /\ ~(Len(s) + i <= Len(s)) /\ Len(s) + i - Len(s) = i
    BY <1>2
  <2> QED BY <1>1, <2>1
<1> QED BY <1>1, <1>3, <1>4

\* The words of a frame by their places.
LEMMA FrameIs ==
  ASSUME NEW r, r.gpr \in [1 .. 8 -> Nat], r.eip \in Nat, r.eflags \in Nat, r.esp \in Nat
  PROVE  /\ \A i \in 1 .. 13 : Upcall!Frame(r)[i] \in Nat
         /\ \A i \in 1 .. 8 : Upcall!Frame(r)[i + 2] = r.gpr[i]
         /\ Upcall!Frame(r)[11] = r.eip /\ Upcall!Frame(r)[12] = r.eflags /\ Upcall!Frame(r)[13] = r.esp
<1>1. PICK a : a = <<0, 14>>
  OBVIOUS
<1>2. PICK z : z = <<r.eip, r.eflags, r.esp>>
  OBVIOUS
<1>3. a \in Seq(Nat) /\ z \in Seq(Nat)
  BY <1>1, <1>2
<1>4. Len(a) = 2 /\ Len(z) = 3 /\ z[1] = r.eip /\ z[2] = r.eflags /\ z[3] = r.esp
  BY <1>1, <1>2
<1>5. r.gpr \in Seq(Nat)
  BY SeqDef
<1>6. Len(r.gpr) = 8
  <2>1. DOMAIN r.gpr = 1 .. Len(r.gpr) /\ Len(r.gpr) \in Nat
    BY <1>5, LenProperties
  <2> QED BY <2>1
<1>7. PICK h : h = a \o r.gpr
  OBVIOUS
<1>8. /\ h \in Seq(Nat) /\ Len(h) = Len(a) + Len(r.gpr)
      /\ \A i \in 1 .. Len(r.gpr) : h[Len(a) + i] = r.gpr[i]
  <2>1. PICK g \in Seq(Nat) : g = r.gpr
    BY <1>5
  <2>2. h = a \o g
    BY <1>7, <2>1
  <2>3. /\ h \in Seq(Nat) /\ Len(h) = Len(a) + Len(g)
        /\ \A i \in 1 .. Len(g) : h[Len(a) + i] = g[i]
    BY <1>3, <2>2, Concatenated
  <2> QED BY <2>1, <2>3
<1>9. Upcall!Frame(r) = h \o z
  BY <1>1, <1>2, <1>7 DEF Upcall!Frame
<1>10. h \in Seq(Nat)
  BY <1>8
<1>11. /\ Upcall!Frame(r) \in Seq(Nat) /\ Len(Upcall!Frame(r)) = Len(h) + Len(z)
       /\ \A i \in 1 .. Len(h) : Upcall!Frame(r)[i] = h[i]
       /\ \A i \in 1 .. Len(z) : Upcall!Frame(r)[Len(h) + i] = z[i]
  BY <1>3, <1>9, <1>10, Concatenated
<1>12. Len(h) = 10 /\ Len(Upcall!Frame(r)) = 13
  BY <1>4, <1>6, <1>8, <1>11
<1>13. \A i \in 1 .. 13 : Upcall!Frame(r)[i] \in Nat
  <2>1. \A i \in 1 .. Len(Upcall!Frame(r)) : Upcall!Frame(r)[i] \in Nat
    BY <1>11, ElementOfSeq
  <2> QED BY <1>12, <2>1
<1>14. \A i \in 1 .. 8 : Upcall!Frame(r)[i + 2] = r.gpr[i]
  <2> TAKE i \in 1 .. 8
  <2>1. i + 2 \in 1 .. 10 /\ i + 2 = 2 + i
    OBVIOUS
  <2>2. h[2 + i] = r.gpr[i]
    BY <1>4, <1>6, <1>8
  <2> QED BY <1>11, <1>12, <2>1, <2>2
<1>15. Upcall!Frame(r)[11] = r.eip /\ Upcall!Frame(r)[12] = r.eflags /\ Upcall!Frame(r)[13] = r.esp
  <2>1. \A i \in 1 .. 3 : Upcall!Frame(r)[10 + i] = z[i]
    BY <1>4, <1>11, <1>12
  <2>2. 10 + 1 = 11 /\ 10 + 2 = 12 /\ 10 + 3 = 13
    OBVIOUS
  <2> QED BY <1>4, <2>1, <2>2
<1> QED BY <1>13, <1>14, <1>15

\* A handler's stack lies below the frame of its fault, the program's elsewhere.
LEMMA EspIs ==
  ASSUME Upcall!UserExceptionAssumption, UpcallInv
  PROVE  /\ context.esp \in Upcall!Addr
         /\ Upcall!Depth = 0 => context.esp \in {Upcall!UserTop - 1, Upcall!UserTop - 2}
         /\ Upcall!Depth # 0 => context.esp \in Upcall!XStack /\ context.esp <= Utf(faults[Upcall!Depth].regs)
<1> USE Geometry
<1>1. Upcall!Depth \in Nat
  BY DEF UpcallInv, Upcall!TypeOK, Upcall!Depth
<1>2. CASE Upcall!Depth = 0
  BY <1>2 DEF UpcallInv, RunningOK, Running
<1>3. CASE Upcall!Depth # 0
  <2> DEFINE u == Utf(faults[Upcall!Depth].regs)
  <2>1. u \in 0 .. XTop - 13
    BY <1>1, <1>3 DEF UpcallInv, NestedOK
  <2>2. context.esp \in 0 .. u
    <3> HIDE DEF u
    <3>1. \/ context.esp = u \/ context.esp \in 0 .. u - 3 \/ (context.esp = u - 1 /\ context.esp >= 0)
      BY <1>3 DEF UpcallInv, RunningOK, Running, u
    <3> QED BY <2>1, <3>1
  <2> HIDE DEF u
  <2>3. context.esp \in Upcall!XStack /\ context.esp <= u
    BY <2>1, <2>2 DEF Upcall!XStack
  <2> QED BY <1>3, <2>3 DEF u
<1> QED BY <1>2, <1>3

\* The registers are what a fault remembers of them.
LEMMA RegsType ==
  ASSUME Upcall!UserExceptionAssumption, UpcallInv
  PROVE  /\ context \in [eip : Nat, esp : Upcall!Addr, eflags : Nat, gpr : [1..8 -> Nat]]
         /\ context.eip \in Nat /\ context.esp \in Upcall!Addr /\ context.esp \in Nat /\ context.eflags \in Nat
         /\ context.gpr \in [1 .. 8 -> Nat]
<1>1. context.eip \in {Upcall!User, Upcall!Upcall, Upcall!AfterCall, Upcall!StoreEip, Upcall!Resume,
        Upcall!Handler}
  BY DEF UpcallInv, Upcall!TypeOK
<1>2. context.eip \in Nat
  BY <1>1 DEF Upcall!User, Upcall!Upcall, Upcall!AfterCall, Upcall!StoreEip, Upcall!Resume, Upcall!Handler
<1>3. context.eflags \in Nat /\ context.gpr \in [1 .. 8 -> Nat]
  BY DEF UpcallInv, Upcall!TypeOK
<1>4. context = [eip |-> context.eip, esp |-> context.esp, eflags |-> context.eflags, gpr |-> context.gpr]
  BY DEF UpcallInv, Upcall!TypeOK
<1>5. context.esp \in Upcall!Addr /\ context.esp \in Nat
  BY EspIs, Geometry
<1> QED BY <1>2, <1>3, <1>4, <1>5

LEMMA FaultType ==
  ASSUME UpcallInv
  PROVE  /\ Upcall!Depth \in Nat /\ faults \in Seq(Remembered)
         /\ \A k \in 1 .. Upcall!Depth : faults[k] \in Remembered
BY ElementOfSeq, LenProperties DEF UpcallInv, Upcall!TypeOK, Upcall!Depth, Remembered

\* Every fault was at an address of a stack, and its frame is in the exception
\* stack, with a scratch word between when that is where the fault was.
LEMMA FaultIs ==
  ASSUME Upcall!UserExceptionAssumption, UpcallInv, NEW k \in 1 .. Upcall!Depth
  PROVE  LET r == faults[k].regs IN
         /\ r.esp \in Upcall!Addr /\ Utf(r) \in 0 .. XTop - 13
         /\ r.esp \in Upcall!XStack => Utf(r) = r.esp - 14
         /\ r.esp \notin Upcall!XStack => r.esp \in Upcall!UserStack /\ Utf(r) = XTop - 13
         /\ k = 1 => r.esp \in {Upcall!UserTop - 1, Upcall!UserTop - 2}
         /\ k # 1 => r.esp \in Upcall!XStack
<1> USE Geometry
<1>1. faults[k].regs.esp \in Upcall!Addr
  BY FaultType DEF Remembered
<1>2. Utf(faults[k].regs) \in 0 .. XTop - 13
  BY DEF UpcallInv, NestedOK
<1>3. Upcall!Depth \in Nat
  BY DEF UpcallInv, Upcall!TypeOK, Upcall!Depth
<1>4. k = 1 => faults[k].regs.esp \in {Upcall!UserTop - 1, Upcall!UserTop - 2}
  BY DEF UpcallInv, RunningOK, Running
<1>5. k # 1 => faults[k].regs.esp \in Upcall!XStack
  <2> SUFFICES ASSUME k # 1 PROVE faults[k].regs.esp \in Upcall!XStack
    OBVIOUS
  <2>1. k - 1 \in 1 .. k - 1 /\ k - 1 \in 1 .. Upcall!Depth
    BY <1>3
  <2>2. faults[k].regs.esp \in 0 .. Utf(faults[k - 1].regs)
    BY <2>1 DEF UpcallInv, NestedOK
  <2>3. Utf(faults[k - 1].regs) \in 0 .. XTop - 13
    BY <2>1 DEF UpcallInv, NestedOK
  <2> QED BY <2>2, <2>3 DEF Upcall!XStack
<1> QED BY <1>1, <1>2, <1>4, <1>5 DEF Utf, Upcall!FrameAddress, Upcall!Addr

\* What was in use at a fault is above its frame and the scratch word.
LEMMA UsedIsAbove ==
  ASSUME Upcall!UserExceptionAssumption, UpcallInv, NEW k \in 1 .. Upcall!Depth,
         NEW a \in Upcall!InUse(faults[k].regs.esp)
  PROVE  a \in Upcall!Addr /\ a >= Utf(faults[k].regs) + 14 /\ a >= faults[k].regs.esp
<1>1. CASE faults[k].regs.esp \in Upcall!XStack
  BY <1>1, FaultIs, Geometry DEF Upcall!InUse, Upcall!XStack
<1>2. CASE faults[k].regs.esp \notin Upcall!XStack
  BY <1>2, FaultIs, Geometry DEF Upcall!InUse
<1> QED BY <1>1, <1>2

\* The code that runs stands below all frames, and each fault below the frames
\* before it.
LEMMA BelowAllFrames ==
  ASSUME Upcall!UserExceptionAssumption, UpcallInv, NEW k \in 1 .. Upcall!Depth
  PROVE  /\ context.esp \in Upcall!XStack /\ context.esp <= Utf(faults[k].regs)
         /\ Utf(faults[Upcall!Depth].regs) <= Utf(faults[k].regs)
         /\ k # Upcall!Depth => faults[Upcall!Depth].regs.esp <= Utf(faults[k].regs)
<1>1. Upcall!Depth \in Nat /\ Upcall!Depth \in 1 .. Upcall!Depth /\ Upcall!Depth # 0
  BY FaultType
<1>2. context.esp \in Upcall!XStack /\ context.esp <= Utf(faults[Upcall!Depth].regs)
  BY <1>1, EspIs
<1>3. CASE k = Upcall!Depth
  BY <1>2, <1>3, <1>1, FaultIs
<1>4. CASE k # Upcall!Depth
  <2>1. k \in 1 .. Upcall!Depth - 1
    BY <1>1, <1>4
  <2>2. faults[Upcall!Depth].regs.esp \in 0 .. Utf(faults[k].regs)
    BY <1>1, <2>1 DEF UpcallInv, NestedOK
  <2>3. Utf(faults[Upcall!Depth].regs) = faults[Upcall!Depth].regs.esp - 14
    BY <1>1, <1>4, <2>1, FaultIs
  <2>4. Utf(faults[k].regs) \in 0 .. XTop - 13 /\ XTop \in Nat
    BY FaultIs, Geometry
  <2> QED BY <1>2, <2>2, <2>3, <2>4, Geometry DEF Upcall!XStack
<1> QED BY <1>3, <1>4

\* Stores below a frame and the words in use leave both.
LEMMA StoresBelow ==
  ASSUME Upcall!UserExceptionAssumption, UpcallInv, NEW k \in 1 .. Upcall!Depth,
         \A a \in Upcall!Addr : a >= Utf(faults[k].regs) => memory'[a] = memory[a]
  PROVE  /\ \A a \in Upcall!InUse(faults[k].regs.esp) : memory'[a] = faults[k].mem[a]
         /\ \A i \in 1 .. Upcall!FrameWords :
              memory'[Utf(faults[k].regs) + i - 1] = memory[Utf(faults[k].regs) + i - 1]
<1>1. ASSUME NEW a \in Upcall!InUse(faults[k].regs.esp) PROVE memory'[a] = faults[k].mem[a]
  <2>1. a \in Upcall!Addr /\ a >= Utf(faults[k].regs)
    BY UsedIsAbove, FaultIs, Geometry
  <2> QED BY <2>1 DEF UpcallInv, KeptOK
<1>2. ASSUME NEW i \in 1 .. Upcall!FrameWords
      PROVE  memory'[Utf(faults[k].regs) + i - 1] = memory[Utf(faults[k].regs) + i - 1]
  <2>1. /\ Utf(faults[k].regs) \in 0 .. XTop - 13 /\ XTop \in Nat /\ i \in 1 .. 13
    BY FaultIs, Geometry
  <2>2. Utf(faults[k].regs) + i - 1 \in 0 .. XTop - 1
    BY <2>1
  <2>3. Utf(faults[k].regs) + i - 1 \in Upcall!Addr /\ Utf(faults[k].regs) + i - 1 >= Utf(faults[k].regs)
    BY <2>1, <2>2, Geometry DEF Upcall!XStack
  <2> QED BY <2>3
<1> QED BY <1>1, <1>2

-----------------------------------------------------------------------------
(* The invariant *)

LEMMA InitInv ==
  ASSUME Upcall!UserExceptionAssumption, Upcall!Init
  PROVE  UpcallInv
<1>1. faults \in Seq(Remembered) /\ Upcall!Depth = 0
  BY DEF Upcall!Init, Upcall!Depth
<1>2. PICK esp \in {Upcall!UserTop - 1, Upcall!UserTop - 2} :
        context = [eip |-> Upcall!User, esp |-> esp, eflags |-> Upcall!Flags(0), gpr |-> Upcall!Gpr(0)]
  BY DEF Upcall!Init
<1>3. esp \in Upcall!Addr
  BY Geometry
<1>4. Upcall!Flags(0) \in Nat /\ Upcall!Gpr(0) \in [1 .. 8 -> Nat]
  BY DEF Upcall!Flags, Upcall!Gpr
<1>5. memory \in [Upcall!Addr -> Nat]
  <2>1. \A a \in Upcall!Addr : 4000 + a \in Nat
    BY Geometry
  <2> QED BY <2>1 DEF Upcall!Init
<1>6. Upcall!TypeOK
  <2>1. client \in Upcall!Program /\ dead = FALSE
    BY DEF Upcall!Init, Upcall!UserExceptionAssumption
  <2>2. context \in [eip : {Upcall!User, Upcall!Upcall, Upcall!AfterCall, Upcall!StoreEip, Upcall!Resume,
          Upcall!Handler}, esp : Upcall!Addr \cup {Upcall!UserTop},
                  eflags : Nat, gpr : [1..8 -> Nat]]
    BY <1>2, <1>3, <1>4
  <2> QED BY <1>1, <1>5, <2>1, <2>2 DEF Upcall!TypeOK, Remembered
<1>7. RunningOK /\ NestedOK /\ KeptOK /\ Upcall!FramesIntact
  BY <1>1, <1>2 DEF RunningOK, NestedOK, KeptOK, Upcall!FramesIntact, Running
<1> QED BY <1>6, <1>7 DEF UpcallInv

\* A step that leaves the registers, the memory and the faults.
LEMMA StutterKeeps ==
  ASSUME UpcallInv, UNCHANGED <<client, context, memory, faults>>, dead' \in BOOLEAN
  PROVE  UpcallInv'
<1> USE DEF UpcallInv
<1>1. Upcall!TypeOK'
  BY DEF Upcall!TypeOK
<1>2. Upcall!Depth' = Upcall!Depth /\ \A k : Upcall!Adjusted(k)' = Upcall!Adjusted(k)
  BY DEF Upcall!Depth, Upcall!Adjusted
<1>3. RunningOK' /\ NestedOK' /\ KeptOK'
  BY <1>2 DEF RunningOK, NestedOK, KeptOK
<1>4. Upcall!FramesIntact'
  BY <1>2 DEF Upcall!FramesIntact
<1> QED BY <1>1, <1>3, <1>4

\* A fault at code that may fault: the frame of the kernel lies below all that is in use.
LEMMA PageFaultKeeps ==
  ASSUME Upcall!UserExceptionAssumption, UpcallInv, context.eip \notin {Upcall!AfterCall, Upcall!Resume},
         Upcall!PageFault
  PROVE  UpcallInv' /\ Len(faults') >= Len(faults)
<1> USE DEF UpcallInv
<1>0. Upcall!Depth \in Nat /\ faults \in Seq(Remembered)
  BY FaultType
<1>1. CASE dead' = TRUE /\ UNCHANGED <<client, context, memory, faults>>
  BY <1>0, <1>1, StutterKeeps DEF Upcall!Depth
<1>2. CASE ~(dead' = TRUE /\ UNCHANGED <<client, context, memory, faults>>)
  <2> DEFINE u == Utf(context)
             new == [regs |-> context, mem |-> memory]
  <2>1. /\ u \in Upcall!XStack
        /\ memory' = [a \in Upcall!Addr |-> IF a \in u .. u + Upcall!FrameWords - 1
                                       THEN Upcall!Frame(context)[a - u + 1] ELSE memory[a]]
        /\ context' = [context EXCEPT !.eip = Upcall!Upcall, !.esp = u]
        /\ faults' = Append(faults, new) /\ UNCHANGED <<client, dead>>
    BY <1>2 DEF Upcall!PageFault, Utf
  <2>2. /\ Upcall!Depth = 0 => context.esp \in Upcall!UserStack /\ u = XTop - 13
        /\ Upcall!Depth # 0 => context.esp \in Upcall!XStack /\ u = context.esp - 14
    BY EspIs, Geometry DEF Utf, Upcall!FrameAddress
  <2>3. u \in 0 .. XTop - 13
    <3>1. CASE Upcall!Depth = 0
      BY <2>2, <3>1, Geometry
    <3>2. CASE Upcall!Depth # 0
      BY <2>1, <2>2, <3>2, Geometry, SMTT(20) DEF Upcall!XStack
    <3> QED BY <3>1, <3>2
  <2>4. new \in Remembered
    BY RegsType DEF Upcall!TypeOK, Remembered
  <2> HIDE DEF new
  <2>5. /\ faults' \in Seq(Remembered) /\ Upcall!Depth' = Upcall!Depth + 1 /\ faults'[Upcall!Depth + 1] = new
        /\ \A k \in 1 .. Upcall!Depth : faults'[k] = faults[k]
    BY <1>0, <2>1, <2>4, AppendProperties DEF Upcall!Depth
  <2>6. \A i \in 1 .. 13 : Upcall!Frame(context)[i] \in Nat
    BY FrameIs, RegsType
  <2> HIDE DEF u
  <2>7. memory' \in [Upcall!Addr -> Nat]
    <3> SUFFICES ASSUME NEW a \in Upcall!Addr, a \in u .. u + Upcall!FrameWords - 1
                 PROVE  Upcall!Frame(context)[a - u + 1] \in Nat
      BY <2>1 DEF Upcall!TypeOK
    <3>1. a - u + 1 \in 1 .. 13
      BY <2>3, Geometry
    <3> QED BY <2>6, <3>1
  <2>8. \A a \in Upcall!Addr : a \notin u .. u + 12 => memory'[a] = memory[a]
    BY <2>1, Geometry
  <2>9. ASSUME NEW i \in 1 .. 13 PROVE memory'[u + i - 1] = Upcall!Frame(context)[i]
    <3>1. /\ u + i - 1 \in 0 .. XTop - 1 /\ u + i - 1 \in u .. u + Upcall!FrameWords - 1
          /\ u + i - 1 - u + 1 = i
      BY <2>3, Geometry
    <3>2. PICK a \in Upcall!Addr : a = u + i - 1
      BY <3>1, Geometry DEF Upcall!XStack
    <3>3. a \in u .. u + Upcall!FrameWords - 1 /\ a - u + 1 = i
      BY <2>3, <3>1, <3>2, Geometry
    <3>4. memory'[a] = Upcall!Frame(context)[a - u + 1]
      BY <2>1, <3>2, <3>3
    <3> QED BY <3>2, <3>3, <3>4
  <2>10. Upcall!TypeOK'
    <3>1. u \in Upcall!Addr
      BY <2>1, Geometry
    <3>2. context' \in [eip : {Upcall!User, Upcall!Upcall, Upcall!AfterCall, Upcall!StoreEip, Upcall!Resume,
            Upcall!Handler}, esp : Upcall!Addr \cup {Upcall!UserTop},
                     eflags : Nat, gpr : [1..8 -> Nat]]
      BY <2>1, <3>1 DEF Upcall!TypeOK
    <3> QED BY <2>1, <2>5, <2>7, <3>2 DEF Upcall!TypeOK, Remembered
  <2>11. new.regs = context /\ new.mem = memory
    BY DEF new
  <2>12. RunningOK'
    <3>1. Running(context', memory', Upcall!Depth + 1, context)
      <4>1. context'.eip = Upcall!Upcall /\ context'.esp = Utf(context)
        BY <2>1 DEF Upcall!TypeOK, u
      <4> QED BY <1>0, <4>1 DEF Running
    <3>2. ASSUME NEW k \in 1 .. Upcall!Depth + 1
          PROVE  /\ Running(faults'[k].regs, faults'[k].mem, k - 1, faults'[k - 1].regs)
                 /\ faults'[k].regs.eip \notin {Upcall!AfterCall, Upcall!Resume}
      <4>1. CASE k = 1
        <5>1. \A f, g : Running(faults'[k].regs, faults'[k].mem, 0, f)
                       <=> Running(faults'[k].regs, faults'[k].mem, 0, g)
          BY DEF Running
        <5> QED BY <1>0, <2>5, <2>11, <4>1, <5>1 DEF RunningOK
      <4>2. CASE k # 1 /\ k \in 1 .. Upcall!Depth
        <5>1. k - 1 \in 1 .. Upcall!Depth
          BY <1>0, <4>2
        <5> QED BY <2>5, <4>2, <5>1 DEF RunningOK
      <4>3. CASE k # 1 /\ k = Upcall!Depth + 1
        <5>1. k - 1 \in 1 .. Upcall!Depth /\ k - 1 = Upcall!Depth
          BY <1>0, <4>3
        <5> QED BY <2>5, <2>11, <4>3, <5>1 DEF RunningOK
      <4> QED BY <1>0, <4>1, <4>2, <4>3
    <3> QED BY <2>5, <2>11, <3>1, <3>2 DEF RunningOK
  <2>13. NestedOK'
    <3>1. \A k \in 1 .. Upcall!Depth : context.esp \in 0 .. Utf(faults[k].regs)
      BY BelowAllFrames, FaultIs, Geometry DEF Upcall!XStack
    <3>2. ASSUME NEW k \in 1 .. Upcall!Depth + 1
          PROVE  /\ Utf(faults'[k].regs) \in 0 .. XTop - Upcall!FrameWords
                 /\ Utf(faults'[k].regs) + (Upcall!FrameWords + 1) * k <= XTop + 1
                 /\ \A j \in 1 .. k - 1 : faults'[k].regs.esp \in 0 .. Utf(faults'[j].regs)
      <4>1. CASE k \in 1 .. Upcall!Depth
        <5>1. 1 .. k - 1 \subseteq 1 .. Upcall!Depth
          BY <1>0
        <5> QED BY <2>5, <4>1, <5>1 DEF NestedOK
      <4>2. CASE k = Upcall!Depth + 1
        <5>1. 1 .. k - 1 = 1 .. Upcall!Depth
          BY <1>0, <4>2
        <5>2. u + 14 * (Upcall!Depth + 1) <= XTop + 1
          <6>1. CASE Upcall!Depth = 0
            BY <2>2, <6>1, Geometry
          <6>2. CASE Upcall!Depth # 0
            <7>1. Upcall!Depth \in 1 .. Upcall!Depth /\ u = context.esp - 14
                  /\ context.esp <= Utf(faults[Upcall!Depth].regs)
              BY <1>0, <2>2, <6>2, EspIs
            <7>2. Utf(faults[Upcall!Depth].regs) + 14 * Upcall!Depth <= XTop + 1
              BY <7>1, Geometry DEF NestedOK
            <7>3. Utf(faults[Upcall!Depth].regs) \in Nat
              BY <7>1, FaultIs, Geometry
            <7>4. context.esp \in Nat /\ XTop \in Nat /\ 14 * (Upcall!Depth + 1) = 14 * Upcall!Depth + 14
              BY <1>0, RegsType, Geometry
            <7>5. u + 14 <= Utf(faults[Upcall!Depth].regs) /\ u \in Nat
              BY <2>3, <7>1, <7>3, <7>4, Geometry
            <7> QED BY <1>0, <7>2, <7>3, <7>4, <7>5
          <6> QED BY <6>1, <6>2
        <5>3. Utf(faults'[k].regs) = u /\ faults'[k].regs.esp = context.esp
          BY <2>5, <2>11, <4>2 DEF u
        <5>4. \A j \in 1 .. k - 1 : context.esp \in 0 .. Utf(faults'[j].regs)
          BY <2>5, <3>1, <5>1
        <5>5. u + (Upcall!FrameWords + 1) * k <= XTop + 1
          BY <4>2, <5>2, Geometry
        <5> QED BY <2>3, <5>3, <5>4, <5>5, Geometry
      <4> QED BY <1>0, <4>1, <4>2
    <3> QED BY <2>5, <3>2 DEF NestedOK
  <2>14. ASSUME NEW k \in 1 .. Upcall!Depth
         PROVE  \A a \in Upcall!Addr : a >= Utf(faults[k].regs) => memory'[a] = memory[a]
    <3>1. u = context.esp - 14 /\ context.esp <= Utf(faults[k].regs) /\ Utf(faults[k].regs) \in Int
      BY <1>0, <2>2, BelowAllFrames, FaultIs
    <3>2. \A a \in Upcall!Addr : a >= Utf(faults[k].regs) => a \notin u .. u + 12
      BY <2>3, <3>1, RegsType, Geometry
    <3> QED BY <2>8, <3>2
  <2>15. KeptOK'
    <3>1. ASSUME NEW a \in Upcall!InUse(context.esp) PROVE memory'[a] = memory[a]
      <4>1. CASE Upcall!Depth = 0
        <5>1. a \in Upcall!UserStack
          BY <2>2, <3>1, <4>1, Geometry DEF Upcall!InUse
        <5> QED BY <2>3, <2>8, <5>1, Geometry
      <4>2. CASE Upcall!Depth # 0
        <5>1. a \in Upcall!Addr /\ a >= u + 14
          BY <2>2, <3>1, <4>2, Geometry DEF Upcall!InUse, Upcall!XStack
        <5> QED BY <2>3, <2>8, <5>1, Geometry
      <4> QED BY <4>1, <4>2
    <3>2. ASSUME NEW k \in 1 .. Upcall!Depth + 1
          PROVE  \A a \in Upcall!InUse(faults'[k].regs.esp) : memory'[a] = faults'[k].mem[a]
      <4>1. CASE k \in 1 .. Upcall!Depth
        BY <2>5, <2>14, <4>1, StoresBelow
      <4>2. CASE k = Upcall!Depth + 1
        BY <2>5, <2>11, <3>1, <4>2
      <4> QED BY <1>0, <4>1, <4>2
    <3> QED BY <2>5, <3>2 DEF KeptOK
  <2>16. Upcall!FramesIntact'
    <3> SUFFICES ASSUME NEW k \in 1 .. Upcall!Depth + 1, NEW i \in 1 .. Upcall!FrameWords
                 PROVE  memory'[Utf(faults'[k].regs) + i - 1] =
                          Upcall!Frame(faults'[k].regs)[i] - (IF i = 13 /\ Upcall!Adjusted(k)' THEN 1 ELSE 0)
      BY <2>5 DEF Upcall!FramesIntact, Utf
    <3>1. CASE k \in 1 .. Upcall!Depth
      <4>1. memory'[Utf(faults[k].regs) + i - 1] = memory[Utf(faults[k].regs) + i - 1]
        BY <2>14, <3>1, StoresBelow
      <4>2. Upcall!Adjusted(k)' = Upcall!Adjusted(k)
        <5>1. CASE k = Upcall!Depth
          <6>1. Upcall!Adjusted(k)' = (context.eip = Upcall!StoreEip)
            BY <1>0, <2>5, <2>11, <5>1 DEF Upcall!Adjusted
          <6> QED BY <5>1, <6>1 DEF Upcall!Adjusted
        <5>2. CASE k # Upcall!Depth
          <6>1. k + 1 \in 1 .. Upcall!Depth /\ k # Upcall!Depth + 1
            BY <1>0, <3>1, <5>2
          <6> QED BY <2>5, <5>2, <6>1 DEF Upcall!Adjusted
        <5> QED BY <5>1, <5>2
      <4> QED BY <2>5, <3>1, <4>1, <4>2 DEF Upcall!FramesIntact, Utf
    <3>2. CASE k = Upcall!Depth + 1
      <4>1. Upcall!Adjusted(k)' = FALSE
        <5>1. context'.eip = Upcall!Upcall
          BY <2>1 DEF Upcall!TypeOK
        <5> QED BY <2>5, <3>2, <5>1 DEF Upcall!Adjusted, Upcall!Upcall, Upcall!StoreEip, Upcall!Resume
      <4>2. memory'[u + i - 1] = Upcall!Frame(context)[i] /\ Upcall!Frame(context)[i] \in Nat
        BY <2>6, <2>9, Geometry
      <4> QED BY <2>5, <2>11, <3>2, <4>1, <4>2 DEF u
    <3> QED BY <1>0, <3>1, <3>2
  <2>17. Len(faults') >= Len(faults)
    BY <1>0, <2>5 DEF Upcall!Depth
  <2> QED BY <2>10, <2>12, <2>13, <2>15, <2>16, <2>17
<1> QED BY <1>1, <1>2

\* What a step of the user code does that leaves the faults as they are: it
\* suffices to look at the registers and at the innermost frame.
LEMMA StepKeeps ==
  ASSUME Upcall!UserExceptionAssumption, UpcallInv, Upcall!TypeOK', faults' = faults, Upcall!Depth # 0,
         Running(context', memory', Upcall!Depth, faults[Upcall!Depth].regs),
         \A k \in 1 .. Upcall!Depth : k # Upcall!Depth =>
           \A a \in Upcall!Addr : a >= Utf(faults[k].regs) => memory'[a] = memory[a],
         \A a \in Upcall!InUse(faults[Upcall!Depth].regs.esp) : memory'[a] = memory[a],
         \A i \in 1 .. Upcall!FrameWords :
           memory'[Utf(faults[Upcall!Depth].regs) + i - 1] =
             Upcall!Frame(faults[Upcall!Depth].regs)[i] -
               (IF i = 13 /\ Upcall!Adjusted(Upcall!Depth)' THEN 1 ELSE 0)
  PROVE  UpcallInv' /\ Len(faults') >= Len(faults)
<1> USE DEF UpcallInv
<1>1. Upcall!Depth \in Nat /\ Upcall!Depth' = Upcall!Depth /\ Upcall!Depth \in 1 .. Upcall!Depth
  BY FaultType DEF Upcall!Depth
<1>2. RunningOK'
  BY <1>1 DEF RunningOK
<1>3. NestedOK'
  BY <1>1 DEF NestedOK
<1>4. KeptOK'
  <2> SUFFICES ASSUME NEW k \in 1 .. Upcall!Depth, NEW a \in Upcall!InUse(faults[k].regs.esp)
               PROVE  memory'[a] = faults[k].mem[a]
    BY <1>1 DEF KeptOK
  <2>1. CASE k = Upcall!Depth
    BY <1>1, <2>1 DEF KeptOK
  <2>2. CASE k # Upcall!Depth
    BY <2>2, StoresBelow
  <2> QED BY <2>1, <2>2
<1>5. Upcall!FramesIntact'
  <2> SUFFICES ASSUME NEW k \in 1 .. Upcall!Depth, NEW i \in 1 .. Upcall!FrameWords
               PROVE  memory'[Utf(faults[k].regs) + i - 1] =
                        Upcall!Frame(faults[k].regs)[i] - (IF i = 13 /\ Upcall!Adjusted(k)' THEN 1 ELSE 0)
    BY <1>1 DEF Upcall!FramesIntact, Utf
  <2>1. CASE k = Upcall!Depth
    BY <1>1, <2>1 DEF Upcall!Adjusted
  <2>2. CASE k # Upcall!Depth
    <3>1. memory'[Utf(faults[k].regs) + i - 1] = memory[Utf(faults[k].regs) + i - 1]
      BY <2>2, StoresBelow
    <3>2. Upcall!Adjusted(k)' = Upcall!Adjusted(k)
      BY <1>1, <2>2 DEF Upcall!Adjusted
    <3> QED BY <3>1, <3>2 DEF Upcall!FramesIntact, Utf
  <2> QED BY <2>1, <2>2
<1>6. Len(faults') >= Len(faults)
  BY <1>1 DEF Upcall!Depth
<1> QED BY <1>2, <1>3, <1>4, <1>5, <1>6

\* The innermost frame, in words of the memory.
LEMMA InnermostFrame ==
  ASSUME Upcall!UserExceptionAssumption, UpcallInv, Upcall!Depth # 0
  PROVE  LET f == faults[Upcall!Depth].regs IN
         /\ Utf(f) \in 0 .. XTop - 13 /\ f.esp \in Upcall!Addr /\ Upcall!Depth \in 1 .. Upcall!Depth
         /\ f.eip \in Nat /\ f.eflags \in Nat /\ f.gpr \in [1 .. 8 -> Nat]
         /\ \A i \in 1 .. Upcall!FrameWords :
              memory[Utf(f) + i - 1] = Upcall!Frame(f)[i] -
                (IF i = 13 /\ Upcall!Adjusted(Upcall!Depth) THEN 1 ELSE 0)
         /\ \A i \in 1 .. 8 : memory[Utf(f) + 1 + i] = f.gpr[i]
         /\ memory[Utf(f) + 10] = f.eip /\ memory[Utf(f) + 11] = f.eflags
         /\ memory[Utf(f) + 12] = IF Upcall!Adjusted(Upcall!Depth) THEN f.esp - 1 ELSE f.esp
         /\ Utf(f) + 10 \in Upcall!Addr /\ Utf(f) + 12 \in Upcall!Addr
<1> DEFINE f == faults[Upcall!Depth].regs
<1>1. Upcall!Depth \in 1 .. Upcall!Depth
  BY FaultType
<1>2. /\ Utf(f) \in 0 .. XTop - 13 /\ f.esp \in Upcall!Addr
      /\ f.eip \in Nat /\ f.eflags \in Nat /\ f.gpr \in [1 .. 8 -> Nat]
  BY <1>1, FaultType, FaultIs DEF Remembered
<1>3. \A i \in 1 .. Upcall!FrameWords :
        memory[Utf(f) + i - 1] = Upcall!Frame(f)[i] - (IF i = 13 /\ Upcall!Adjusted(Upcall!Depth) THEN 1 ELSE 0)
  BY <1>1 DEF UpcallInv, Upcall!FramesIntact, Utf
<1>4. /\ \A i \in 1 .. 13 : Upcall!Frame(f)[i] \in Nat
      /\ \A i \in 1 .. 8 : Upcall!Frame(f)[i + 2] = f.gpr[i]
      /\ Upcall!Frame(f)[11] = f.eip /\ Upcall!Frame(f)[12] = f.eflags /\ Upcall!Frame(f)[13] = f.esp
  <2>1. f.esp \in Nat
    BY <1>2, Geometry
  <2> HIDE DEF f
  <2> QED BY <1>2, <2>1, FrameIs
<1> HIDE DEF f
<1>5. ASSUME NEW i \in 1 .. 8 PROVE memory[Utf(f) + 1 + i] = f.gpr[i]
  <2>1. i + 2 \in 1 .. Upcall!FrameWords /\ i + 2 # 13 /\ Utf(f) + (i + 2) - 1 = Utf(f) + 1 + i
    BY <1>2, Geometry
  <2>2. memory[Utf(f) + (i + 2) - 1] = Upcall!Frame(f)[i + 2] - 0
    BY <1>3, <2>1
  <2> QED BY <1>2, <1>4, <2>1, <2>2
<1>6. memory[Utf(f) + 10] = f.eip /\ memory[Utf(f) + 11] = f.eflags
  <2>1. 11 \in 1 .. Upcall!FrameWords /\ 12 \in 1 .. Upcall!FrameWords
    BY Geometry
  <2>2. memory[Utf(f) + 11 - 1] = Upcall!Frame(f)[11] - 0 /\ memory[Utf(f) + 12 - 1] = Upcall!Frame(f)[12] - 0
    BY <1>3, <2>1
  <2>3. Utf(f) + 11 - 1 = Utf(f) + 10 /\ Utf(f) + 12 - 1 = Utf(f) + 11
    BY <1>2
  <2> QED BY <1>2, <1>4, <2>2, <2>3
<1>7. memory[Utf(f) + 12] = IF Upcall!Adjusted(Upcall!Depth) THEN f.esp - 1 ELSE f.esp
  <2>1. 13 \in 1 .. Upcall!FrameWords /\ Utf(f) + 13 - 1 = Utf(f) + 12 /\ f.esp \in Nat
    BY <1>2, Geometry
  <2> QED BY <1>3, <1>4, <2>1
<1>8. Utf(f) + 10 \in Upcall!Addr /\ Utf(f) + 12 \in Upcall!Addr
  BY <1>2, Geometry DEF Upcall!XStack
<1> QED BY <1>1, <1>2, <1>3, <1>5, <1>6, <1>7, <1>8 DEF f

LEMMA CallHandlerKeeps ==
  ASSUME Upcall!UserExceptionAssumption, UpcallInv, Upcall!CallHandler
  PROVE  UpcallInv' /\ Len(faults') >= Len(faults)
<1> DEFINE f == faults[Upcall!Depth].regs
           u == Utf(f)
<1>1. /\ context.eip = Upcall!Upcall /\ context.esp - 3 >= 0
      /\ memory' = [memory EXCEPT ![context.esp - 3 + 2] = context.esp,
           ![context.esp - 3 + 1] = Upcall!AfterCall,
                            ![context.esp - 3] = context.gpr[Upcall!ebp]]
      /\ UNCHANGED <<client, faults, dead>>
  BY DEF Upcall!CallHandler, Upcall!At
<1>2. PICK n \in Locals : /\ n <= context.esp - 3
                          /\ context' = [eip |-> Upcall!Handler, esp |-> context.esp - 3 - n,
                               eflags |-> Upcall!Flags(Upcall!Depth),
                                      gpr |-> [Upcall!Gpr(Upcall!Depth) EXCEPT ![Upcall!ebp] = context.esp - 3]]
  BY DEF Upcall!CallHandler
<1>3. Upcall!Depth # 0 /\ Upcall!Depth \in Nat
  BY <1>1, FaultType DEF UpcallInv, RunningOK, Running, Upcall!Upcall, Upcall!User
<1>4. context.esp = u
  BY <1>1, <1>3 DEF UpcallInv, RunningOK, Running, Upcall!Upcall, Upcall!Handler, Upcall!AfterCall,
    Upcall!StoreEip, Upcall!Resume
<1>5. u \in 0 .. XTop - 13 /\ u >= 3 /\ XTop \in Nat
  BY <1>1, <1>3, <1>4, InnermostFrame, Geometry
<1> HIDE DEF u
<1>6. PICK top \in Upcall!Addr : top = u - 3
  BY <1>5, Geometry DEF Upcall!XStack
<1>7. top \in Nat /\ top + 1 \in Upcall!Addr /\ top + 2 \in Upcall!Addr /\ context.gpr[Upcall!ebp] \in Nat
      /\ top + 3 = u
  BY <1>5, <1>6, RegsType, Geometry DEF Upcall!XStack, Upcall!ebp
<1>8. /\ memory' \in [Upcall!Addr -> Nat] /\ memory'[top + 1] = Upcall!AfterCall
      /\ \A a \in Upcall!Addr : a \notin {top, top + 1, top + 2} => memory'[a] = memory[a]
  <2>1. memory' = [memory EXCEPT ![top + 2] = u, ![top + 1] = Upcall!AfterCall,
          ![top] = context.gpr[Upcall!ebp]]
    BY <1>1, <1>4, <1>6
  <2>2. u \in Nat /\ Upcall!AfterCall \in Nat /\ memory \in [Upcall!Addr -> Nat]
    BY <1>5 DEF Upcall!AfterCall, UpcallInv, Upcall!TypeOK
  <2> QED BY <1>7, <2>1, <2>2
<1>9. /\ context'.eip = Upcall!Handler /\ context'.esp = top - n /\ context'.gpr[Upcall!ebp] = top
      /\ n \in Nat /\ n <= top /\ Upcall!TypeOK'
  <2>1. n \in Nat /\ n <= top
    BY <1>2, <1>4, <1>6 DEF Upcall!UserExceptionAssumption
  <2>2. Upcall!Gpr(Upcall!Depth) \in [1 .. 8 -> Nat] /\ Upcall!Flags(Upcall!Depth) \in Nat
        /\ Upcall!ebp \in 1 .. 8
    BY <1>3 DEF Upcall!Gpr, Upcall!Flags, Upcall!ebp
  <2>3. context' = [eip |-> Upcall!Handler, esp |-> top - n, eflags |-> Upcall!Flags(Upcall!Depth),
                 gpr |-> [Upcall!Gpr(Upcall!Depth) EXCEPT ![Upcall!ebp] = top]]
    BY <1>2, <1>4, <1>6
  <2>4. top - n \in Upcall!Addr
    BY <1>5, <1>6, <2>1, Geometry DEF Upcall!XStack
  <2>5. [Upcall!Gpr(Upcall!Depth) EXCEPT ![Upcall!ebp] = top] \in [1 .. 8 -> Nat]
        /\ [Upcall!Gpr(Upcall!Depth) EXCEPT ![Upcall!ebp] = top][Upcall!ebp] = top
    BY <1>7, <2>2
  <2> QED BY <1>1, <1>8, <2>1, <2>2, <2>3, <2>4, <2>5 DEF UpcallInv, Upcall!TypeOK
<1>10. Running(context', memory', Upcall!Depth, f)
  <2>1. top = u - 3 /\ top + 1 = u - 2 /\ top - n \in 0 .. u - 3
    BY <1>5, <1>6, <1>9
  <2> QED BY <1>3, <1>8, <1>9, <2>1 DEF Running, u
<1>11. \A a \in Upcall!Addr : a >= u => memory'[a] = memory[a]
  <2>1. \A a \in Upcall!Addr : a >= u => a \notin {top, top + 1, top + 2}
    BY <1>7, Geometry
  <2> QED BY <1>8, <2>1
<1>12. ASSUME NEW k \in 1 .. Upcall!Depth
       PROVE  \A a \in Upcall!Addr : a >= Utf(faults[k].regs) => memory'[a] = memory[a]
  <2>1. u <= Utf(faults[k].regs) /\ Utf(faults[k].regs) \in Int
    BY BelowAllFrames, FaultIs DEF u
  <2> QED BY <1>5, <1>11, <2>1, Geometry
<1>13. \A a \in Upcall!InUse(f.esp) : memory'[a] = memory[a]
  <2>1. \A a \in Upcall!InUse(f.esp) : a \in Upcall!Addr /\ a >= u
    BY <1>3, <1>5, UsedIsAbove, InnermostFrame, Geometry, SMTT(20) DEF u
  <2> QED BY <1>11, <2>1
<1>14. ASSUME NEW i \in 1 .. Upcall!FrameWords
       PROVE  memory'[u + i - 1] = Upcall!Frame(f)[i] -
                (IF i = 13 /\ Upcall!Adjusted(Upcall!Depth)' THEN 1 ELSE 0)
  <2>1. u + i - 1 \in Upcall!Addr /\ u + i - 1 >= u
    BY <1>5, Geometry DEF Upcall!XStack
  <2>2. memory'[u + i - 1] = memory[u + i - 1]
    BY <1>11, <2>1
  <2>3. Upcall!Adjusted(Upcall!Depth)' = FALSE /\ Upcall!Adjusted(Upcall!Depth) = FALSE
    BY <1>1, <1>9 DEF Upcall!Adjusted, Upcall!Depth, Upcall!Handler, Upcall!Upcall, Upcall!StoreEip,
      Upcall!Resume
  <2> QED BY <1>3, <2>2, <2>3, InnermostFrame DEF u
<1> QED BY <1>1, <1>3, <1>9, <1>10, <1>12, <1>13, <1>14, StepKeeps DEF u

LEMMA HandlerReturnsKeeps ==
  ASSUME Upcall!UserExceptionAssumption, UpcallInv, Upcall!HandlerReturns
  PROVE  UpcallInv' /\ Len(faults') >= Len(faults)
<1> DEFINE f == faults[Upcall!Depth].regs
           u == Utf(f)
<1>1. /\ context.eip = Upcall!Handler /\ UNCHANGED <<client, memory, faults, dead>>
      /\ context' = [context EXCEPT !.eip = memory[context.gpr[Upcall!ebp] + 1],
           !.esp = context.gpr[Upcall!ebp] + 2,
                              !.gpr[Upcall!ebp] = memory[context.gpr[Upcall!ebp]]]
  BY DEF Upcall!HandlerReturns, Upcall!At
<1>2. Upcall!Depth # 0 /\ Upcall!Depth \in Nat
  BY <1>1, FaultType DEF UpcallInv, RunningOK, Running, Upcall!Handler, Upcall!User
<1>3. context.gpr[Upcall!ebp] = u - 3 /\ context.esp \in 0 .. u - 3 /\ memory[u - 2] = Upcall!AfterCall
  BY <1>1, <1>2 DEF UpcallInv, RunningOK, Running, Upcall!Upcall, Upcall!Handler, Upcall!AfterCall,
    Upcall!StoreEip, Upcall!Resume
<1>4. u \in 0 .. XTop - 13 /\ u >= 3 /\ XTop \in Nat
  BY <1>2, <1>3, InnermostFrame, Geometry
<1> HIDE DEF u
<1>5. u - 3 \in Upcall!Addr /\ u - 1 \in Upcall!Addr
  BY <1>4, Geometry DEF Upcall!XStack
<1>6. context' = [context EXCEPT !.eip = Upcall!AfterCall, !.esp = u - 1, !.gpr[Upcall!ebp] = memory[u - 3]]
  <2>1. u - 3 + 1 = u - 2 /\ u - 3 + 2 = u - 1
    BY <1>4
  <2> QED BY <1>1, <1>3, <2>1
<1>7. context'.eip = Upcall!AfterCall /\ context'.esp = u - 1 /\ Upcall!TypeOK'
  <2>1. memory[u - 3] \in Nat /\ Upcall!ebp \in 1 .. 8
    BY <1>5 DEF UpcallInv, Upcall!TypeOK, Upcall!ebp
  <2>2. /\ context'.eip = Upcall!AfterCall /\ context'.esp = u - 1
        /\ context' = [eip |-> Upcall!AfterCall, esp |-> u - 1, eflags |-> context.eflags,
                    gpr |-> [context.gpr EXCEPT ![Upcall!ebp] = memory[u - 3]]]
    BY <1>6 DEF UpcallInv, Upcall!TypeOK
  <2>3. [context.gpr EXCEPT ![Upcall!ebp] = memory[u - 3]] \in [1 .. 8 -> Nat]
    BY <2>1, RegsType
  <2> QED BY <1>1, <1>5, <2>2, <2>3 DEF UpcallInv, Upcall!TypeOK
<1>8. Running(context', memory', Upcall!Depth, f)
  BY <1>2, <1>4, <1>7 DEF Running, u
<1>9. Upcall!Adjusted(Upcall!Depth)' = FALSE /\ Upcall!Adjusted(Upcall!Depth) = FALSE
  BY <1>1, <1>7 DEF Upcall!Adjusted, Upcall!Depth, Upcall!Handler, Upcall!AfterCall, Upcall!StoreEip,
    Upcall!Resume
<1>10. ASSUME NEW i \in 1 .. Upcall!FrameWords
       PROVE  memory'[u + i - 1] = Upcall!Frame(f)[i] -
                (IF i = 13 /\ Upcall!Adjusted(Upcall!Depth)' THEN 1 ELSE 0)
  BY <1>1, <1>2, <1>9, InnermostFrame DEF u
<1> QED BY <1>1, <1>2, <1>7, <1>8, <1>10, StepKeeps DEF u

\* Adjust finds the frame although the handler has used the stack below it.
LEMMA AdjustKeeps ==
  ASSUME Upcall!UserExceptionAssumption, UpcallInv, Upcall!Adjust
  PROVE  UpcallInv' /\ Len(faults') >= Len(faults)
<1> DEFINE f == faults[Upcall!Depth].regs
           u == Utf(f)
<1>1. /\ context.eip = Upcall!AfterCall /\ UNCHANGED <<client, faults, dead>>
      /\ memory' = [memory EXCEPT ![context.esp + 1 + 12] = memory[context.esp + 1 + 12] - 1]
      /\ context' = [context EXCEPT !.eip = Upcall!StoreEip, !.esp = context.esp + 1,
                              !.gpr[Upcall!ebp] = memory[context.esp + 1 + 12] - 1,
                                !.gpr[Upcall!eax] = memory[context.esp + 1 + 10]]
  BY DEF Upcall!Adjust, Upcall!At
<1>2. Upcall!Depth # 0 /\ Upcall!Depth \in Nat
  BY <1>1, FaultType DEF UpcallInv, RunningOK, Running, Upcall!AfterCall, Upcall!User
<1>3. context.esp = u - 1 /\ context.esp >= 0
  BY <1>1, <1>2 DEF UpcallInv, RunningOK, Running, Upcall!Upcall, Upcall!Handler, Upcall!AfterCall,
    Upcall!StoreEip, Upcall!Resume
<1>4. u \in 0 .. XTop - 13 /\ XTop \in Nat /\ context.esp + 1 = u
  BY <1>2, <1>3, InnermostFrame, Geometry
<1>5. Upcall!Adjusted(Upcall!Depth) = FALSE
  BY <1>1 DEF Upcall!Adjusted, Upcall!Depth, Upcall!AfterCall, Upcall!StoreEip, Upcall!Resume
<1>6. /\ memory[u + 12] = f.esp /\ memory[u + 10] = f.eip /\ u + 12 \in Upcall!Addr
      /\ f.esp \in Upcall!Addr /\ f.eip \in Nat
  BY <1>2, <1>5, InnermostFrame
<1>7. f.esp \in Nat /\ f.esp - 1 \in Nat /\ f.esp # 0
  <2>1. f.esp \in Upcall!XStack => u = f.esp - 14
    BY <1>2, InnermostFrame, FaultIs
  <2>2. f.esp \notin Upcall!XStack => f.esp \in Upcall!UserStack
    BY <1>6 DEF Upcall!Addr
  <2> HIDE DEF f, u
  <2> QED BY <1>4, <1>6, <2>1, <2>2, Geometry
<1>8. /\ memory' = [memory EXCEPT ![u + 12] = f.esp - 1]
      /\ context' = [context EXCEPT !.eip = Upcall!StoreEip, !.esp = u, !.gpr[Upcall!ebp] = f.esp - 1,
           !.gpr[Upcall!eax] = f.eip]
  BY <1>1, <1>4, <1>6
<1>9. /\ memory' \in [Upcall!Addr -> Nat] /\ memory'[u + 12] = f.esp - 1
      /\ \A a \in Upcall!Addr : a # u + 12 => memory'[a] = memory[a]
  BY <1>6, <1>7, <1>8 DEF UpcallInv, Upcall!TypeOK
<1>10. /\ context'.eip = Upcall!StoreEip /\ context'.esp = u /\ context'.gpr[Upcall!ebp] = f.esp - 1
       /\ context'.gpr[Upcall!eax] = f.eip
       /\ Upcall!TypeOK'
  <2>1. Upcall!ebp \in 1 .. 8 /\ Upcall!eax \in 1 .. 8 /\ Upcall!ebp # Upcall!eax
        /\ context.gpr \in [1 .. 8 -> Nat]
    BY RegsType DEF Upcall!ebp, Upcall!eax
  <2>2. u \in Upcall!Addr
    BY <1>4, Geometry DEF Upcall!XStack
  <2> HIDE DEF f, u
  <2>3. /\ context'.eip = Upcall!StoreEip /\ context'.esp = u /\ context'.eflags = context.eflags
        /\ context'.gpr = [context.gpr EXCEPT ![Upcall!ebp] = f.esp - 1, ![Upcall!eax] = f.eip]
    BY <1>8 DEF UpcallInv, Upcall!TypeOK
  <2>4. context'.gpr \in [1 .. 8 -> Nat] /\ context'.gpr[Upcall!ebp] = f.esp - 1
        /\ context'.gpr[Upcall!eax] = f.eip
    BY <1>6, <1>7, <2>1, <2>3
  <2>5. context' = [eip |-> Upcall!StoreEip, esp |-> u, eflags |-> context.eflags, gpr |-> context'.gpr]
    BY <1>8, <2>3 DEF UpcallInv, Upcall!TypeOK
  <2> QED BY <1>1, <1>9, <2>2, <2>3, <2>4, <2>5 DEF UpcallInv, Upcall!TypeOK
<1> HIDE DEF u
<1>11. Running(context', memory', Upcall!Depth, f)
  BY <1>2, <1>10 DEF Running, u
<1>12. ASSUME NEW k \in 1 .. Upcall!Depth, k # Upcall!Depth
       PROVE  \A a \in Upcall!Addr : a >= Utf(faults[k].regs) => memory'[a] = memory[a]
  <2>1. f.esp <= Utf(faults[k].regs) /\ Utf(faults[k].regs) \in Int
    BY <1>12, BelowAllFrames, FaultIs
  <2>2. u = f.esp - 14
    <3>1. Upcall!Depth \in 1 .. Upcall!Depth /\ Upcall!Depth # 1
      BY <1>2, <1>12
    <3> QED BY <3>1, FaultIs DEF u
  <2>3. \A a \in Upcall!Addr : a >= Utf(faults[k].regs) => a # u + 12
    BY <1>4, <1>7, <2>1, <2>2, Geometry
  <2> QED BY <1>9, <2>3
<1>13. \A a \in Upcall!InUse(f.esp) : memory'[a] = memory[a]
  <2>1. \A a \in Upcall!InUse(f.esp) : a \in Upcall!Addr /\ a >= u + 14
    BY <1>2, UsedIsAbove DEF u
  <2>2. \A a \in Upcall!InUse(f.esp) : a # u + 12
    BY <1>4, <2>1, Geometry
  <2> QED BY <1>9, <2>1, <2>2
<1>14. ASSUME NEW i \in 1 .. Upcall!FrameWords
       PROVE  memory'[u + i - 1] = Upcall!Frame(f)[i] -
                (IF i = 13 /\ Upcall!Adjusted(Upcall!Depth)' THEN 1 ELSE 0)
  <2>1. Upcall!Adjusted(Upcall!Depth)' = TRUE
    BY <1>1, <1>10 DEF Upcall!Adjusted, Upcall!Depth
  <2>2. memory[u + i - 1] = Upcall!Frame(f)[i]
    <3>1. memory[u + i - 1] = Upcall!Frame(f)[i] - 0 /\ Upcall!Frame(f)[i] \in Nat
      <4>1. f.gpr \in [1 .. 8 -> Nat] /\ f.eip \in Nat /\ f.eflags \in Nat
        BY <1>2, InnermostFrame
      <4> QED BY <1>2, <1>5, <1>7, <4>1, InnermostFrame, FrameIs, Geometry DEF u
    <3> QED BY <3>1
  <2>3. CASE i = 13
    <3>1. u + i - 1 = u + 12
      BY <1>4, <2>3
    <3> QED BY <1>6, <1>9, <2>1, <2>2, <2>3, <3>1
  <2>4. CASE i # 13
    <3>1. u + i - 1 # u + 12 /\ u + i - 1 \in Upcall!Addr
      BY <1>4, <2>4, Geometry DEF Upcall!XStack
    <3>2. Upcall!Frame(f)[i] - 0 = Upcall!Frame(f)[i]
      <4>1. f.gpr \in [1 .. 8 -> Nat] /\ f.eip \in Nat /\ f.eflags \in Nat
        BY <1>2, InnermostFrame
      <4> QED BY <1>7, <4>1, FrameIs, Geometry
    <3> QED BY <1>9, <2>2, <2>4, <3>1, <3>2
  <2> QED BY <2>3, <2>4
<1> QED BY <1>1, <1>2, <1>10, <1>11, <1>12, <1>13, <1>14, StepKeeps DEF u

\* The store to the trap-time stack hits the word below what was in use: the
\* scratch word above the frame, or a word of the user stack.
LEMMA StoreKeeps ==
  ASSUME Upcall!UserExceptionAssumption, UpcallInv, Upcall!Store
  PROVE  UpcallInv' /\ Len(faults') >= Len(faults)
<1> DEFINE f == faults[Upcall!Depth].regs
           u == Utf(f)
<1>1. /\ context.eip = Upcall!StoreEip /\ UNCHANGED <<client, faults, dead>>
      /\ memory' = [memory EXCEPT ![context.gpr[Upcall!ebp]] = context.gpr[Upcall!eax]]
      /\ context' = [context EXCEPT !.eip = Upcall!Resume]
  BY DEF Upcall!Store, Upcall!At
<1>2. Upcall!Depth # 0 /\ Upcall!Depth \in Nat
  BY <1>1, FaultType DEF UpcallInv, RunningOK, Running, Upcall!StoreEip, Upcall!User
<1>3. context.esp = u /\ context.gpr[Upcall!ebp] = f.esp - 1 /\ context.gpr[Upcall!eax] = f.eip
  BY <1>1, <1>2 DEF UpcallInv, RunningOK, Running, Upcall!Upcall, Upcall!Handler, Upcall!AfterCall,
    Upcall!StoreEip, Upcall!Resume
<1>4. u \in 0 .. XTop - 13 /\ XTop \in Nat /\ f.esp \in Upcall!Addr /\ f.esp \in Nat /\ f.eip \in Nat
  BY <1>2, InnermostFrame, Geometry
<1>5. /\ f.esp \in Upcall!XStack => u = f.esp - 14
      /\ f.esp \notin Upcall!XStack => f.esp \in {Upcall!UserTop - 1, Upcall!UserTop - 2} /\ Upcall!Depth = 1
  BY <1>2, InnermostFrame, FaultIs
<1> HIDE DEF f, u
<1>6. f.esp - 1 \in Upcall!Addr /\ f.esp - 1 \notin u .. u + 12
  BY <1>4, <1>5, Geometry DEF Upcall!XStack, Upcall!UserStack, Upcall!UserTop, Upcall!Addr
<1>7. /\ memory' \in [Upcall!Addr -> Nat] /\ memory'[f.esp - 1] = f.eip
      /\ \A a \in Upcall!Addr : a # f.esp - 1 => memory'[a] = memory[a]
  BY <1>1, <1>3, <1>4, <1>6 DEF UpcallInv, Upcall!TypeOK
<1>8. context'.eip = Upcall!Resume /\ context'.esp = u /\ Upcall!TypeOK'
  BY <1>1, <1>3, <1>7 DEF UpcallInv, Upcall!TypeOK
<1>9. Running(context', memory', Upcall!Depth, f)
  BY <1>2, <1>7, <1>8 DEF Running, u
<1>10. ASSUME NEW k \in 1 .. Upcall!Depth, k # Upcall!Depth
       PROVE  \A a \in Upcall!Addr : a >= Utf(faults[k].regs) => memory'[a] = memory[a]
  <2>1. f.esp <= Utf(faults[k].regs) /\ Utf(faults[k].regs) \in Int
    BY <1>10, BelowAllFrames, FaultIs DEF f
  <2>2. \A a \in Upcall!Addr : a >= Utf(faults[k].regs) => a # f.esp - 1
    BY <1>4, <2>1, Geometry
  <2> QED BY <1>7, <2>2
<1>11. \A a \in Upcall!InUse(f.esp) : memory'[a] = memory[a]
  <2>1. \A a \in Upcall!InUse(f.esp) : a \in Upcall!Addr /\ a >= f.esp
    BY <1>2, InnermostFrame, UsedIsAbove DEF f
  <2>2. \A a \in Upcall!InUse(f.esp) : a # f.esp - 1
    BY <1>4, <2>1, Geometry
  <2> QED BY <1>7, <2>1, <2>2
<1>12. ASSUME NEW i \in 1 .. Upcall!FrameWords
       PROVE  memory'[u + i - 1] = Upcall!Frame(f)[i] -
                (IF i = 13 /\ Upcall!Adjusted(Upcall!Depth)' THEN 1 ELSE 0)
  <2>1. Upcall!Adjusted(Upcall!Depth)' = TRUE /\ Upcall!Adjusted(Upcall!Depth) = TRUE
    BY <1>1, <1>8 DEF Upcall!Adjusted, Upcall!Depth
  <2>2. u + i - 1 \in Upcall!Addr /\ u + i - 1 \in u .. u + 12
    BY <1>4, Geometry DEF Upcall!XStack
  <2>3. memory'[u + i - 1] = memory[u + i - 1]
    BY <1>6, <1>7, <2>2
  <2> QED BY <1>2, <2>1, <2>3, InnermostFrame DEF u, f
<1> QED BY <1>1, <1>2, <1>8, <1>9, <1>10, <1>11, <1>12, StepKeeps DEF u, f

\* The return of the upcall restores what the fault has remembered, and
\* with it the invariant of the code that faulted.
LEMMA ReturnKeeps ==
  ASSUME Upcall!UserExceptionAssumption, UpcallInv, Upcall!Return
  PROVE  /\ UpcallInv' /\ context' = faults[Upcall!Depth].regs /\ memory' = memory
         /\ Upcall!Depth \in 1 .. Upcall!Depth /\ Len(faults') = Upcall!Depth - 1
<1> DEFINE f == faults[Upcall!Depth].regs
           u == Utf(f)
<1>1. /\ context.eip = Upcall!Resume /\ UNCHANGED <<client, memory, dead>> /\ faults' = Upcall!Front(faults)
      /\ context' = [gpr |-> [i \in 1 .. 8 |-> memory[context.esp + 1 + i]],
           eflags |-> memory[context.esp + 11],
                  eip |-> Upcall!Word(memory[context.esp + 12]), esp |-> memory[context.esp + 12] + 1]
  BY DEF Upcall!Return, Upcall!At
<1>2. Upcall!Depth # 0 /\ Upcall!Depth \in Nat /\ Upcall!Depth \in 1 .. Upcall!Depth
  <2>1. Upcall!Depth # 0
    BY <1>1 DEF UpcallInv, RunningOK, Running, Upcall!Resume, Upcall!User
  <2> QED BY <2>1, FaultType
<1>3. context.esp = u /\ memory[f.esp - 1] = f.eip
  BY <1>1, <1>2 DEF UpcallInv, RunningOK, Running, Upcall!Upcall, Upcall!Handler, Upcall!AfterCall,
    Upcall!StoreEip, Upcall!Resume
<1>4. Upcall!Adjusted(Upcall!Depth)
  BY <1>1 DEF Upcall!Adjusted
<1>5. /\ \A i \in 1 .. 8 : memory[u + 1 + i] = f.gpr[i]
      /\ memory[u + 11] = f.eflags /\ memory[u + 12] = f.esp - 1
      /\ f.gpr \in [1 .. 8 -> Nat] /\ f.esp \in Upcall!Addr
  BY <1>2, <1>4, InnermostFrame
<1>6. f.esp - 1 \in Upcall!Addr /\ f.esp \in Nat
  <2>1. u \in 0 .. XTop - 13
    BY <1>2, InnermostFrame
  <2>2. /\ f.esp \in Upcall!XStack => u = f.esp - 14
        /\ f.esp \notin Upcall!XStack => f.esp \in {Upcall!UserTop - 1, Upcall!UserTop - 2}
    BY <1>2, FaultIs
  <2> HIDE DEF f, u
  <2> QED BY <1>5, <2>1, <2>2, Geometry DEF Upcall!XStack, Upcall!UserStack, Upcall!UserTop, Upcall!Addr
<1>7. context' = f
  <2>1. f \in [eip : Nat, esp : Upcall!Addr, eflags : Nat, gpr : [1..8 -> Nat]]
    BY <1>2, FaultType DEF Remembered
  <2> HIDE DEF f, u
  <2>2. [i \in 1 .. 8 |-> memory[u + 1 + i]] = f.gpr
    BY <1>5
  <2>3. Upcall!Word(f.esp - 1) = f.eip /\ f.esp - 1 + 1 = f.esp
    BY <1>3, <1>6 DEF Upcall!Word
  <2>4. context' = [gpr |-> f.gpr, eflags |-> f.eflags, eip |-> f.eip, esp |-> f.esp]
    BY <1>1, <1>3, <1>5, <2>2, <2>3
  <2> QED BY <2>1, <2>4
<1>8. /\ faults' \in Seq(Remembered) /\ Upcall!Depth' = Upcall!Depth - 1
      /\ \A k \in 1 .. Upcall!Depth - 1 : faults'[k] = faults[k]
  <2>1. faults \in Seq(Remembered) /\ Upcall!Depth = Len(faults)
    BY FaultType DEF Upcall!Depth
  <2>2. \A k \in 1 .. Upcall!Depth - 1 : faults[k] \in Remembered
    BY FaultType
  <2>3. /\ SubSeq(faults, 1, Upcall!Depth - 1) \in Seq(Remembered)
        /\ Len(SubSeq(faults, 1, Upcall!Depth - 1)) = Upcall!Depth - 1
        /\ \A k \in 1 .. Upcall!Depth - 1 : SubSeq(faults, 1, Upcall!Depth - 1)[k] = faults[k]
    <3>1. /\ SubSeq(faults, 1, Upcall!Depth - 1) \in Seq(Remembered)
          /\ Len(SubSeq(faults, 1, Upcall!Depth - 1)) = IF 1 <= Upcall!Depth - 1
               THEN Upcall!Depth - 1 - 1 + 1 ELSE 0
          /\ \A k \in 1 .. Upcall!Depth - 1 - 1 + 1 : SubSeq(faults, 1, Upcall!Depth - 1)[k] = faults[1 + k - 1]
      BY <1>2, <2>2, SubSeqProperties
    <3> QED BY <1>2, <3>1
  <2> QED BY <1>1, <2>1, <2>3 DEF Upcall!Front, Upcall!Depth
<1>9. Running(f, faults[Upcall!Depth].mem, Upcall!Depth - 1, faults[Upcall!Depth - 1].regs)
      /\ f.eip \notin {Upcall!AfterCall, Upcall!Resume}
  BY <1>2 DEF UpcallInv, RunningOK
<1>10. Upcall!TypeOK'
  <2>1. f.eip \in {Upcall!User, Upcall!Upcall, Upcall!Handler, Upcall!StoreEip}
    BY <1>9 DEF Running
  <2>2. f \in [eip : {Upcall!User, Upcall!Upcall, Upcall!AfterCall, Upcall!StoreEip, Upcall!Resume,
          Upcall!Handler}, esp : Upcall!Addr \cup {Upcall!UserTop},
               eflags : Nat, gpr : [1..8 -> Nat]]
    <3>1. f \in [eip : Nat, esp : Upcall!Addr, eflags : Nat, gpr : [1..8 -> Nat]]
      BY <1>2, FaultType DEF Remembered
    <3> HIDE DEF f
    <3> QED BY <2>1, <3>1
  <2> HIDE DEF f
  <2> QED BY <1>1, <1>7, <1>8, <2>2 DEF UpcallInv, Upcall!TypeOK, Remembered
<1>11. RunningOK'
  <2>1. Running(f, memory, Upcall!Depth - 1, faults[Upcall!Depth - 1].regs)
    <3>1. CASE Upcall!Depth = 1
      BY <1>9, <3>1 DEF Running
    <3>2. CASE Upcall!Depth # 1
      <4> DEFINE v == Utf(faults[Upcall!Depth - 1].regs)
      <4>1. Upcall!Depth - 1 \in 1 .. Upcall!Depth /\ Upcall!Depth - 1 # 0
        BY <1>2, <3>2
      <4>2. v \in 0 .. XTop - 13 /\ XTop \in Nat
        BY <4>1, FaultIs, Geometry
      <4>3. f.esp \in Upcall!XStack
        BY <1>2, <3>2, FaultIs
      <4>4. ASSUME f.eip = Upcall!Handler, f.esp \in 0 .. v - 3
            PROVE memory[v - 2] = faults[Upcall!Depth].mem[v - 2]
        <5>1. v - 2 \in Upcall!InUse(f.esp)
          BY <4>2, <4>3, <4>4, Geometry DEF Upcall!InUse, Upcall!XStack
        <5> QED BY <1>2, <5>1 DEF UpcallInv, KeptOK
      <4> HIDE DEF v, f
      <4> QED BY <1>9, <4>1, <4>4 DEF Running, v
    <3> QED BY <3>1, <3>2
  <2>2. Running(context', memory', Upcall!Depth', faults'[Upcall!Depth'].regs)
    <3>1. CASE Upcall!Depth = 1
      BY <1>1, <1>7, <1>8, <2>1, <3>1 DEF Running
    <3>2. CASE Upcall!Depth # 1
      <4>1. Upcall!Depth - 1 \in 1 .. Upcall!Depth - 1
        BY <1>2, <3>2
      <4> QED BY <1>1, <1>7, <1>8, <2>1, <4>1
    <3> QED BY <3>1, <3>2
  <2>3. ASSUME NEW k \in 1 .. Upcall!Depth - 1
        PROVE  /\ Running(faults'[k].regs, faults'[k].mem, k - 1, faults'[k - 1].regs)
               /\ faults'[k].regs.eip \notin {Upcall!AfterCall, Upcall!Resume}
    <3>1. k \in 1 .. Upcall!Depth
      BY <1>2
    <3>2. CASE k = 1
      <4>1. \A x, y : Running(faults[k].regs, faults[k].mem, 0, x)
                     <=> Running(faults[k].regs, faults[k].mem, 0, y)
        BY DEF Running
      <4> QED BY <1>8, <3>1, <3>2, <4>1 DEF UpcallInv, RunningOK
    <3>3. CASE k # 1
      <4>1. k - 1 \in 1 .. Upcall!Depth - 1
        BY <1>2, <3>3
      <4> QED BY <1>8, <3>1, <3>3, <4>1 DEF UpcallInv, RunningOK
    <3> QED BY <3>2, <3>3
  <2> QED BY <1>8, <2>2, <2>3 DEF RunningOK
<1>12. 1 .. Upcall!Depth - 1 \subseteq 1 .. Upcall!Depth
  BY <1>2
<1>13. NestedOK'
  <2>1. \A k \in 1 .. Upcall!Depth - 1 : 1 .. k - 1 \subseteq 1 .. Upcall!Depth - 1
    BY <1>2
  <2> QED BY <1>8, <1>12, <2>1 DEF UpcallInv, NestedOK
<1>14. KeptOK'
  <2> SUFFICES ASSUME NEW k \in 1 .. Upcall!Depth - 1, NEW a \in Upcall!InUse(faults'[k].regs.esp)
               PROVE  memory'[a] = faults'[k].mem[a]
    BY <1>8 DEF KeptOK
  <2>1. faults'[k] = faults[k] /\ k \in 1 .. Upcall!Depth
    BY <1>8, <1>12
  <2> QED BY <1>1, <2>1 DEF UpcallInv, KeptOK
<1>15. Upcall!FramesIntact'
  <2> SUFFICES ASSUME NEW k \in 1 .. Upcall!Depth - 1, NEW i \in 1 .. Upcall!FrameWords
               PROVE  memory'[Utf(faults'[k].regs) + i - 1] =
                        Upcall!Frame(faults'[k].regs)[i] - (IF i = 13 /\ Upcall!Adjusted(k)' THEN 1 ELSE 0)
    BY <1>8 DEF Upcall!FramesIntact, Utf
  <2>1. Upcall!Adjusted(k)' = Upcall!Adjusted(k)
    <3>1. CASE k = Upcall!Depth - 1
      <4>1. k # Upcall!Depth /\ k + 1 = Upcall!Depth
        BY <1>2, <3>1
      <4> QED BY <1>7, <1>8, <1>9, <3>1, <4>1 DEF Upcall!Adjusted
    <3>2. CASE k # Upcall!Depth - 1
      <4>1. k # Upcall!Depth /\ k + 1 \in 1 .. Upcall!Depth - 1
        BY <1>2, <3>2
      <4> QED BY <1>8, <3>2, <4>1 DEF Upcall!Adjusted
    <3> QED BY <3>1, <3>2
  <2> QED BY <1>1, <1>8, <1>12, <2>1 DEF UpcallInv, Upcall!FramesIntact, Utf
<1>16. Len(faults') = Upcall!Depth - 1
  BY <1>8 DEF Upcall!Depth
<1> QED BY <1>1, <1>2, <1>7, <1>10, <1>11, <1>13, <1>14, <1>15, <1>16 DEF UpcallInv

LEMMA NextKeeps ==
  ASSUME Upcall!UserExceptionAssumption, UpcallInv, Upcall!Next
  PROVE  UpcallInv' /\ Upcall!ResumeExactStep
<1>1. UpcallInv' /\ (Len(faults') >= Len(faults) \/ Upcall!Return)
  <2>1. CASE Upcall!Fault
    <3>1. Upcall!PageFault /\ context.eip \in {Upcall!User, Upcall!Handler, Upcall!StoreEip, Upcall!Upcall}
      BY <2>1 DEF Upcall!Fault, Upcall!At
    <3>2. context.eip \notin {Upcall!AfterCall, Upcall!Resume}
      BY <3>1 DEF Upcall!User, Upcall!Handler, Upcall!StoreEip, Upcall!Upcall, Upcall!AfterCall,
        Upcall!Resume
    <3> QED BY <3>1, <3>2, PageFaultKeeps
  <2>2. CASE Upcall!PushFault
    <3>1. Upcall!PageFault /\ context.eip \notin {Upcall!AfterCall, Upcall!Resume}
      BY <2>2 DEF Upcall!PushFault, Upcall!At, Upcall!Upcall, Upcall!AfterCall, Upcall!Resume
    <3> QED BY <3>1, PageFaultKeeps
  <2>3. CASE Upcall!Return
    BY <2>3, ReturnKeeps
  <2> QED BY <2>1, <2>2, <2>3, CallHandlerKeeps, HandlerReturnsKeeps, AdjustKeeps,
    StoreKeeps DEF Upcall!Next
<1>2. ASSUME Upcall!Return PROVE Upcall!ResumeExactStep
  <2> DEFINE at == faults[Upcall!Depth]
  <2>1. context' = at.regs /\ memory' = memory /\ Upcall!Depth \in 1 .. Upcall!Depth
    BY <1>2, ReturnKeeps
  <2>2. \A a \in Upcall!InUse(at.regs.esp) : memory'[a] = at.mem[a]
    BY <2>1 DEF UpcallInv, KeptOK
  <2>3. Upcall!Last(faults) = at
    BY DEF Upcall!Last, Upcall!Depth
  <2> QED BY <2>1, <2>2, <2>3 DEF Upcall!ResumeExactStep
<1>3. Upcall!Depth \in Nat /\ Upcall!Depth' \in Nat
  <2>1. UpcallInv'
    BY <1>1
  <2>2. Upcall!Depth' \in Nat
    BY <2>1, LenProperties DEF UpcallInv, Upcall!TypeOK, Upcall!Depth
  <2> QED BY <2>2, FaultType
<1>4. ASSUME Len(faults') >= Len(faults) PROVE Upcall!ResumeExactStep
  BY <1>3, <1>4 DEF Upcall!ResumeExactStep, Upcall!Depth
<1> QED BY <1>1, <1>2, <1>4

\* The invariant behind the theorems.
LEMMA Invariant ==
  ASSUME Upcall!UserExceptionAssumption
  PROVE  Upcall!Spec => []UpcallInv
<1>1. Upcall!Init => UpcallInv
  BY InitInv
<1>2. UpcallInv /\ [Upcall!Next]_(Upcall!vars) => UpcallInv'
  <2> SUFFICES ASSUME UpcallInv, [Upcall!Next]_(Upcall!vars) PROVE UpcallInv'
    OBVIOUS
  <2>1. CASE Upcall!Next
    BY <2>1, NextKeeps
  <2>2. CASE UNCHANGED Upcall!vars
    BY <2>2, StutterKeeps DEF Upcall!vars, UpcallInv, Upcall!TypeOK
  <2> QED BY <2>1, <2>2
<1> QED BY <1>1, <1>2, PTL DEF Upcall!Spec

-----------------------------------------------------------------------------
(* Theorems *)

\* The registers, the two stacks and what is remembered of the faults have their
\* types: in particular esp never leaves the stacks, whatever the handlers push.
THEOREM Typing ==
  ASSUME Upcall!UserExceptionAssumption
  PROVE  Upcall!Spec => []Upcall!TypeOK
<1>1. UpcallInv => Upcall!TypeOK
  BY DEF UpcallInv
<1> QED BY <1>1, Invariant, PTL

\* The frames that page_fault_handler has written for all faults not yet resumed
\* stay intact, at every depth of nesting, but for the one word that the upcall
\* itself moves (kern/trap.c:395, lib/pfentry.S).
THEOREM FramesStayIntact ==
  ASSUME Upcall!UserExceptionAssumption
  PROVE  Upcall!Spec => []Upcall!FramesIntact
<1>1. UpcallInv => Upcall!FramesIntact
  BY DEF UpcallInv
<1> QED BY <1>1, Invariant, PTL

\* Every return of _pgfault_upcall undoes the innermost fault exactly: all
\* registers and all words in use on the trap-time stack, whichever of the two
\* stacks that was, and although the store of eip to it may itself have faulted.
THEOREM FaultsResumeExactly ==
  ASSUME Upcall!UserExceptionAssumption
  PROVE  Upcall!Spec => [][Upcall!ResumeExactStep]_(Upcall!vars)
<1>1. UpcallInv /\ [Upcall!Next]_(Upcall!vars) => [Upcall!ResumeExactStep]_(Upcall!vars)
  BY NextKeeps
<1> QED BY <1>1, Invariant, PTL DEF Upcall!Spec

\* However the handlers fault, there are never more unresolved faults than frames
\* with their scratch words fit in the exception stack: page_fault_handler
\* destroys the environment that would need one more.
THEOREM NestingIsBounded ==
  ASSUME Upcall!UserExceptionAssumption
  PROVE  Upcall!Spec => []Upcall!FaultsFit
<1>1. UpcallInv => Upcall!FaultsFit
  <2> SUFFICES ASSUME UpcallInv PROVE Upcall!Depth <= (XTop + 1) \div 14
    BY Geometry DEF Upcall!FaultsFit
  <2>1. Upcall!Depth \in Nat /\ XTop \in Nat
    BY FaultType, Geometry
  <2>2. 14 * Upcall!Depth <= XTop + 1
    <3>1. CASE Upcall!Depth = 0
      BY <2>1, <3>1
    <3>2. CASE Upcall!Depth # 0
      <4>1. Upcall!Depth \in 1 .. Upcall!Depth
        BY <2>1, <3>2
      <4>2. /\ Utf(faults[Upcall!Depth].regs) + 14 * Upcall!Depth <= XTop + 1
            /\ Utf(faults[Upcall!Depth].regs) \in Nat
        BY <4>1, FaultIs, Geometry DEF UpcallInv, NestedOK
      <4> QED BY <2>1, <4>2
    <3> QED BY <3>1, <3>2
  <2> QED BY <2>1, <2>2
<1> QED BY <1>1, Invariant, PTL

-----------------------------------------------------------------------------
(* Traps into the kernel: Traps *)

Flags == IF lab = 4 THEN Trap!FL_IF ELSE 0

Registers ==
  [eip : Int, eax : Int, gpr : Int, esp : Int, eflags : {0, Trap!FL_IF}, cs : {Trap!UserSel, Trap!KernelSel},
   ss : {35, 16}, ds : {35, 16}, es : {35, 16}]

\* What is pushed of the registers of an event.
FromUser == event.regs.cs = Trap!UserSel
HandlerFrame ==
  LET r == event.regs IN
  <<IF FromUser THEN r.ss ELSE 0, IF FromUser THEN r.esp ELSE 0, r.eflags, r.cs, r.eip>>
Pushed == HandlerFrame \o <<event.err, event.vec>>
Whole == Pushed \o <<event.regs.ds, event.regs.es, event.regs.eax, event.regs.gpr>>

\* The struct Trapframe of an event.
Saved(eax) ==
  LET r == event.regs IN
  [gpr |-> r.gpr, eax |-> eax, es |-> r.es, ds |-> r.ds, trapno |-> event.vec, err |-> event.err,
   eip |-> r.eip, cs |-> r.cs, eflags |-> r.eflags, esp |-> r.esp, ss |-> r.ss]

Entry == {"stub", "alltraps", "trap"}
Handling == place \in Entry \cup {"dispatch", "return"} \/ (place = "monitor" /\ env.status = "RUNNING")

\* The program has been shown to read what it prints.
Checked == program = "print" => Trap!UserMemCheck(arg.va, arg.len, {"U"}) = {}
Resumable(eip) == eip \in 1 .. Len(Trap!Code) /\ (eip > 2 => Checked)

\* The stack.
FrameOK ==
  /\ \A i \in DOMAIN frame : frame[i] \in Int
  /\ place = "user" => frame = <<>>
  /\ place = "halted" => frame = <<0, 0>>
  /\ place = "stub" => frame = HandlerFrame \o (IF event.vec \in Trap!CpuErr THEN <<event.err>> ELSE <<>>)
  /\ place = "alltraps" => frame = Pushed
  /\ place \in {"trap", "dispatch"} => frame = Whole

\* The registers.
RegsOK ==
  /\ regs \in Registers /\ regs.eip \in 1 .. Len(Trap!Code)
  /\ place = "user" => regs.cs = Trap!UserSel /\ regs.ss = 35 /\ regs.ds = 35 /\ regs.es = 35
       /\ regs.eflags = Flags
                       /\ Resumable(regs.eip)
  /\ place = "halted" => regs.cs = Trap!KernelSel /\ regs.eflags = Trap!FL_IF
  /\ Handling => regs.cs = Trap!KernelSel /\ regs.eflags = 0
  /\ place \in {"stub", "alltraps"} =>
       /\ regs.eax = event.regs.eax /\ regs.gpr = event.regs.gpr
       /\ regs.ds = event.regs.ds /\ regs.es = event.regs.es

\* Why a trap was taken.
EventOK ==
  Handling =>
    /\ event.regs \in Registers /\ event.vec \in Int /\ event.err \in Int /\ event.va \in Int
    /\ event.vec \notin Trap!CpuErr => event.err = 0
    /\ IF FromUser
       THEN /\ event.regs.ss = 35 /\ event.regs.ds = 35 /\ event.regs.es = 35
            /\ event.regs.eflags = Flags
            /\ \/ /\ event.vec = Trap!T_SYSCALL /\ event.regs.eip - 1 \in 1 .. Len(Trap!Code)
                  /\ Trap!Code[event.regs.eip - 1].op = "sys"
                  /\ event.regs.eip > 3 => Checked
               \/ event.vec \in Trap!Exceptions \cup Trap!Interrupts /\ Resumable(event.regs.eip)
       ELSE event.vec \in Trap!Interrupts

\* The environment.
EnvOK ==
  /\ place = "user" => env.status \in {"RUNNING", "DYING"} /\ ended.how = "not"
  /\ place = "halted" => env.status = "FREE" /\ lab = 4 /\ others
  /\ place = "monitor" => env.status \in {"RUNNING", "FREE"}
  /\ place = "monitor" /\ env.status = "RUNNING" => event.vec = Trap!T_BRKPT /\ FromUser
  /\ env.status = "DYING" => lab = 4
  /\ Handling =>
       IF FromUser
       THEN /\ env.status = "RUNNING" \/ (env.status = "DYING" /\ place \in Entry)
            /\ ended.how = "not"
       ELSE env.status = "FREE" /\ lab = 4 /\ others
  /\ Handling /\ FromUser /\ place \notin Entry =>
       /\ env.tf = Saved(env.tf.eax) /\ env.tf.eax \in Int
       /\ env.tf.eax = event.regs.eax \/ (event.vec = Trap!T_SYSCALL /\ place = "return")
  /\ Handling /\ FromUser /\ place = "return" => Resumable(event.regs.eip)

EndOK ==
  program = "print" =>
    /\ ended.how = "exit" => Checked
    /\ ended.how = "user_mem_assert" =>
         /\ ~Checked
         /\ ended.va = (CHOOSE va \in Trap!UserMemCheck(arg.va, arg.len, {"U"}) : TRUE)

SetupOK ==
  /\ lab \in Lab /\ program \in Tests /\ others \in BOOLEAN /\ place \in Trap!Place
  /\ others => lab = 4
  /\ DOMAIN env = {"status", "tf"} /\ env.status \in {"RUNNING", "DYING", "FREE"}
  /\ DOMAIN ended = {"how", "vec", "err", "va"}
  /\ program = "print" => arg \in [va : PrintAt, len : PrintLen]

TrapInv ==
  SetupOK /\ FrameOK /\ RegsOK /\ EventOK /\ EnvOK /\ EndOK /\ Trap!KernelSurvives

-----------------------------------------------------------------------------
LEMMA Around ==
  ASSUME NEW B, NEW G, NEW D, NEW S, B \in Seq(S), G \in S, D \in S
  PROVE  LET C == <<G>> \o B \o <<D>> IN
         /\ Len(C) = Len(B) + 2 /\ C[1] = G /\ C[Len(C)] = D
         /\ \A j \in 2 .. Len(B) + 1 : C[j] = B[j - 1]
OBVIOUS

Instruction ==
  [op : {"div", "int", "seg", "load", "store"}, a : Nat, b : Nat]
  \cup [op : {"sys"}, a : {"getenvid", "cputs", "yield", "none"}, b : Seq(Nat)]

Sound(x) ==
  /\ x \in Instruction
  /\ x.op = "int" => x.a \in {Trap!T_BRKPT, Trap!T_PGFLT}
  /\ x.op = "seg" => x.a = 40

LEMMA Pieces ==
  /\ Sound(Trap!Op("div", 0, 0)) /\ Sound(Trap!Op("int", 14, 0)) /\ Sound(Trap!Op("int", 3, 0))
  /\ Sound(Trap!Op("seg", 40, 0))
  /\ \A a \in Nat : Sound(Trap!Op("load", a, 0)) /\ Sound(Trap!Op("store", a, 0))
  /\ \A a \in Nat, len \in Nat : Sound(Trap!Cputs(a, len))
  /\ Sound(Trap!Op("sys", "yield", <<>>)) /\ Sound(Trap!Op("sys", "none", <<>>))
<1> USE DEF Sound, Instruction, Trap!Op, Trap!T_BRKPT, Trap!T_PGFLT
<1>1. Sound(Trap!Op("div", 0, 0)) /\ Sound(Trap!Op("int", 14, 0)) /\ Sound(Trap!Op("int", 3, 0))
      /\ Sound(Trap!Op("seg", 40, 0))
  OBVIOUS
<1>2. \A a \in Nat : Sound(Trap!Op("load", a, 0)) /\ Sound(Trap!Op("store", a, 0))
  OBVIOUS
<1>3. \A a \in Nat, len \in Nat : Sound(Trap!Cputs(a, len))
  <2> TAKE a \in Nat, len \in Nat
  <2>1. <<a, len>> \in Seq(Nat)
    OBVIOUS
  <2> QED BY <2>1 DEF Trap!Cputs
<1>4. Sound(Trap!Op("sys", "yield", <<>>)) /\ Sound(Trap!Op("sys", "none", <<>>))
  <2>1. <<>> \in Seq(Nat)
    OBVIOUS
  <2> QED BY <2>1
<1> QED BY <1>1, <1>2, <1>3, <1>4

\* What the programs are made of.
LEMMA Bodies ==
  ASSUME Trap!TrapsAssumption, program \in Tests, program = "print" => arg \in [va : PrintAt, len : PrintLen]
  PROVE  /\ Trap!Body[program] \in Seq(Instruction) /\ Len(Trap!Body[program]) > 0
         /\ program = "print" => Trap!Body[program] = <<Trap!Cputs(arg.va, arg.len)>>
         /\ \A j \in 1 .. Len(Trap!Body[program]) : Sound(Trap!Body[program][j])
<1> DEFINE Fits(B) == B \in Seq(Instruction) /\ Len(B) > 0 /\ \A j \in 1 .. Len(B) : Sound(B[j])
<1>1. ASSUME NEW x, Sound(x) PROVE Fits(<<x>>)
  <2>1. x \in Instruction
    BY <1>1 DEF Sound
  <2> QED BY <1>1, <2>1
<1>2. ASSUME NEW x, NEW y, Sound(x), Sound(y) PROVE Fits(<<x, y>>)
  <2>1. x \in Instruction /\ y \in Instruction
    BY <1>2 DEF Sound
  <2>2. \A j \in 1 .. 2 : <<x, y>>[j] \in {x, y}
    OBVIOUS
  <2> QED BY <1>2, <2>1, <2>2
<1>3. ASSUME NEW x, NEW y, NEW z, Sound(x), Sound(y), Sound(z) PROVE Fits(<<x, y, z>>)
  <2>1. x \in Instruction /\ y \in Instruction /\ z \in Instruction
    BY <1>3 DEF Sound
  <2>2. \A j \in 1 .. 3 : <<x, y, z>>[j] \in {x, y, z}
    OBVIOUS
  <2> QED BY <1>3, <2>1, <2>2
<1> HIDE DEF Fits
<1>4. program \in Trap!Programs
  BY DEF Trap!TrapsAssumption
<1>5. Trap!HELLO \in Nat /\ Trap!KERNEL \in Nat /\ Trap!PGSIZE \in Nat /\ Trap!HELLO + Trap!PGSIZE \in Nat
      /\ 2 * Trap!PGSIZE \in Nat
  BY DEF Trap!HELLO, Trap!KERNEL, Trap!PGSIZE
<1>6. Fits(Trap!divzero) /\ Fits(Trap!softint) /\ Fits(Trap!badsegment) /\ Fits(Trap!breakpoint)
  BY <1>1, Pieces DEF Trap!divzero, Trap!softint, Trap!badsegment, Trap!breakpoint
<1>7. Fits(Trap!faultread) /\ Fits(Trap!faultreadkernel)
  BY <1>2, <1>5, Pieces DEF Trap!faultread, Trap!faultreadkernel
<1>8. Fits(Trap!faultwrite) /\ Fits(Trap!faultwritekernel)
  BY <1>1, <1>5, Pieces DEF Trap!faultwrite, Trap!faultwritekernel
<1>9. Fits(Trap!testbss) /\ Fits(Trap!hello)
  BY <1>2, <1>3, <1>5, Pieces DEF Trap!testbss, Trap!hello
<1>10. Fits(Trap!buggyhello) /\ Fits(Trap!buggyhello2) /\ Fits(Trap!evilhello)
  BY <1>1, <1>5, Pieces DEF Trap!buggyhello, Trap!buggyhello2, Trap!evilhello
<1>11. Fits(Trap!yield) /\ Fits(Trap!unknown)
  BY <1>1, <1>2, Pieces DEF Trap!yield, Trap!unknown
<1>12. program = "print" => Fits(Trap!print)
  <2>1. program = "print" => arg.va \in Nat /\ arg.len \in Nat
    BY DEF Trap!TrapsAssumption
  <2> QED BY <1>1, <2>1, Pieces DEF Trap!print
<1>13. Fits(Trap!Body[program]) /\ (program = "print" => Trap!Body[program] = Trap!print)
  BY <1>4, <1>6, <1>7, <1>8, <1>9, <1>10, <1>11, <1>12 DEF Trap!Programs, Trap!Body
<1> QED BY <1>13 DEF Fits, Trap!print

LEMMA CodeFacts ==
  ASSUME Trap!TrapsAssumption, SetupOK
  PROVE  /\ Len(Trap!Code) \in Nat /\ Len(Trap!Code) > 2
         /\ Trap!Code[1] = Trap!Getenvid /\ Trap!Code[Len(Trap!Code)] = Trap!Destroy
         /\ \A j \in 2 .. Len(Trap!Code) - 1 : Sound(Trap!Code[j])
         /\ program = "print" => Len(Trap!Code) = 3 /\ Trap!Code[2] = Trap!Cputs(arg.va, arg.len)
<1> DEFINE B == Trap!Body[program]
<1>1. /\ B \in Seq(Instruction) /\ Len(B) > 0 /\ \A j \in 1 .. Len(B) : Sound(B[j])
      /\ program = "print" => B = <<Trap!Cputs(arg.va, arg.len)>>
  BY Bodies DEF SetupOK
<1>2. Trap!Code = <<Trap!Getenvid>> \o B \o <<Trap!Destroy>>
  BY DEF Trap!Code
<1> HIDE DEF B
<1>3. B \in Seq(Instruction \cup {Trap!Getenvid, Trap!Destroy})
  <2>1. \A j \in 1 .. Len(B) : B[j] \in Instruction
    BY <1>1 DEF Sound
  <2> QED BY <1>1, <2>1
<1>4. /\ Len(Trap!Code) = Len(B) + 2 /\ Trap!Code[1] = Trap!Getenvid /\ Trap!Code[Len(Trap!Code)] = Trap!Destroy
      /\ \A j \in 2 .. Len(B) + 1 : Trap!Code[j] = B[j - 1]
  BY <1>2, <1>3, Around
<1>5. Len(B) \in Nat
  BY <1>1
<1>6. ASSUME NEW j \in 2 .. Len(Trap!Code) - 1 PROVE Sound(Trap!Code[j])
  <2>1. j \in 2 .. Len(B) + 1 /\ j - 1 \in 1 .. Len(B)
    BY <1>4, <1>5, <1>6
  <2> QED BY <1>1, <1>4, <2>1
<1>7. program = "print" => Len(B) = 1 /\ Trap!Code[2] = Trap!Cputs(arg.va, arg.len)
  <2> SUFFICES ASSUME program = "print" PROVE Len(B) = 1 /\ Trap!Code[2] = Trap!Cputs(arg.va, arg.len)
    OBVIOUS
  <2>1. B = <<Trap!Cputs(arg.va, arg.len)>>
    BY <1>1
  <2>2. Len(B) = 1 /\ B[1] = Trap!Cputs(arg.va, arg.len)
    BY <2>1
  <2> QED BY <1>4, <2>2
<1> QED BY <1>1, <1>4, <1>5, <1>6, <1>7

\* The program and what it is given stay.
LEMMA Fixed ==
  ASSUME UNCHANGED <<lab, program, others, arg>>
  PROVE  /\ Trap!Code' = Trap!Code /\ Flags' = Flags /\ Checked' = Checked
         /\ Trap!UserMemCheck(arg.va, arg.len, {"U"})' = Trap!UserMemCheck(arg.va, arg.len, {"U"})
         /\ \A eip : Resumable(eip)' = Resumable(eip)
<1>1. Trap!Body' = Trap!Body
  BY DEF Trap!Body, Trap!print, Trap!Cputs, Trap!Op
<1>2. Trap!Code' = Trap!Code
  BY <1>1 DEF Trap!Code
<1>3. Trap!UserMemCheck(arg.va, arg.len, {"U"})' = Trap!UserMemCheck(arg.va, arg.len, {"U"})
  OBVIOUS
<1> QED BY <1>2, <1>3 DEF Flags, Checked, Resumable

\* The gates of the traps that are taken.
LEMMA Gates ==
  ASSUME NEW n \in Int, lab \in {3, 4},
         n \in Trap!Exceptions \cup {Trap!T_SYSCALL} \cup (IF lab = 4 THEN Trap!Irqs ELSE {})
  PROVE  (CHOOSE x \in Trap!Gate(n) : TRUE).istrap <=> lab = 3 /\ n # Trap!T_SYSCALL
<1> DEFINE g == [dpl |-> IF n \in {Trap!T_BRKPT, Trap!T_SYSCALL} THEN 3 ELSE 0,
             istrap |-> lab = 3 /\ n # Trap!T_SYSCALL]
<1>1. Trap!Gate(n) = {g}
  BY DEF Trap!Gate
<1>2. g.istrap <=> lab = 3 /\ n # Trap!T_SYSCALL
  OBVIOUS
<1> HIDE DEF g
<1>3. (CHOOSE x \in {g} : TRUE) = g
  OBVIOUS
<1> QED BY <1>1, <1>2, <1>3

LEMMA RaiseKeeps ==
  ASSUME Trap!TrapsAssumption, TrapInv, NEW n \in Int, NEW err \in Int, NEW va \in Int, NEW eip \in Int,
         place \in {"user", "halted"}, Trap!Raise(n, err, va, eip),
         n \in Trap!Exceptions \cup {Trap!T_SYSCALL} \cup (IF lab = 4 THEN Trap!Irqs ELSE {}),
         n \notin Trap!CpuErr => err = 0,
         place = "halted" => n \in Trap!Interrupts,
         place = "user" =>
           \/ /\ n = Trap!T_SYSCALL /\ eip - 1 \in 1 .. Len(Trap!Code)
              /\ Trap!Code[eip - 1].op = "sys"
              /\ eip > 3 => Checked
           \/ n \in Trap!Exceptions \cup Trap!Interrupts /\ Resumable(eip)
  PROVE  TrapInv'
<1> DEFINE r == [regs EXCEPT !.eip = eip]
<1>1. /\ UNCHANGED <<lab, program, others, env, arg, ended>> /\ place' = "stub"
      /\ event' = [vec |-> n, err |-> err, va |-> va, regs |-> r]
  BY DEF Trap!Raise
<1>2. lab \in {3, 4} /\ regs \in Registers /\ regs.eip \in 1 .. Len(Trap!Code)
  BY DEF TrapInv, SetupOK, Trap!TrapsAssumption, RegsOK
<1>3. r \in Registers /\ r.eip = eip /\ r.cs = regs.cs
      /\ r.eax = regs.eax /\ r.gpr = regs.gpr /\ r.ds = regs.ds /\ r.es = regs.es /\ r.ss = regs.ss
      /\ r.esp = regs.esp /\ r.eflags = regs.eflags
  BY <1>2 DEF Registers
<1>4. /\ Trap!Code' = Trap!Code /\ Flags' = Flags /\ Checked' = Checked /\ Resumable(eip)' = Resumable(eip)
      /\ Trap!UserMemCheck(arg.va, arg.len, {"U"})' = Trap!UserMemCheck(arg.va, arg.len, {"U"})
  BY <1>1, Fixed
<1>5. Trap!Mode(Trap!UserSel) = 3 /\ Trap!Mode(Trap!KernelSel) = 0 /\ Trap!UserSel # Trap!KernelSel
  BY DEF Trap!Mode, Trap!UserSel, Trap!KernelSel
<1>6. /\ place = "user" => r.cs = Trap!UserSel /\ r.ss = 35 /\ r.ds = 35 /\ r.es = 35 /\ r.eflags = Flags
      /\ place = "halted" => r.cs = Trap!KernelSel /\ r.eflags = Trap!FL_IF /\ lab = 4
  BY <1>3 DEF TrapInv, RegsOK, EnvOK
<1>7. /\ regs' \in Registers /\ regs'.eip = regs.eip /\ regs'.cs = Trap!KernelSel /\ regs'.eflags = 0
      /\ regs'.eax = r.eax /\ regs'.gpr = r.gpr /\ regs'.ds = r.ds /\ regs'.es = r.es
  <2>1. (CHOOSE x \in Trap!Gate(n) : TRUE).istrap => regs.eflags = 0
    <3>1. lab = 3 => regs.eflags = 0
      BY <1>3, <1>6 DEF Flags
    <3> QED BY <1>2, <3>1, Gates
  <2> HIDE DEF r
  <2> QED BY <1>2, <1>3, <2>1 DEF Trap!Raise, Registers, Trap!Mode
<1> HIDE DEF r
<1>8. FromUser' <=> place = "user"
  BY <1>1, <1>5, <1>6 DEF FromUser
<1>9. HandlerFrame' =
        <<IF place = "user" THEN r.ss ELSE 0, IF place = "user" THEN r.esp ELSE 0, r.eflags, r.cs, r.eip>>
  BY <1>1, <1>8 DEF HandlerFrame
<1>10. frame' = HandlerFrame' \o (IF n \in Trap!CpuErr THEN <<err>> ELSE <<>>)
  <2>1. CASE place = "user"
    <3>1. frame = <<>> /\ Trap!Mode(r.cs) = 3
      BY <2>1, <1>5, <1>6 DEF TrapInv, FrameOK
    <3>2. frame' = <<r.ss, r.esp>> \o <<r.eflags, r.cs, r.eip>> \o (IF n \in Trap!CpuErr THEN <<err>> ELSE <<>>)
      BY <3>1 DEF Trap!Raise, r
    <3>3. HandlerFrame' = <<r.ss, r.esp, r.eflags, r.cs, r.eip>>
      BY <1>9, <2>1
    <3> QED BY <3>2, <3>3
  <2>2. CASE place = "halted"
    <3>1. frame = <<0, 0>> /\ Trap!Mode(r.cs) # 3
      BY <2>2, <1>5, <1>6 DEF TrapInv, FrameOK
    <3>2. frame' = <<0, 0>> \o <<r.eflags, r.cs, r.eip>> \o (IF n \in Trap!CpuErr THEN <<err>> ELSE <<>>)
      BY <3>1 DEF Trap!Raise, r
    <3>3. HandlerFrame' = <<0, 0, r.eflags, r.cs, r.eip>>
      BY <1>9, <2>2
    <3> QED BY <3>2, <3>3
  <2> QED BY <2>1, <2>2
<1>11. FrameOK'
  <2>1. \A i \in DOMAIN frame' : frame'[i] \in Int
    <3>1. r.ss \in Int /\ r.esp \in Int /\ r.eflags \in Int /\ r.cs \in Int /\ r.eip \in Int
      BY <1>3 DEF Registers, Trap!FL_IF, Trap!UserSel, Trap!KernelSel
    <3>2. HandlerFrame' \in Seq(Int) /\ (IF n \in Trap!CpuErr THEN <<err>> ELSE <<>>) \in Seq(Int)
      BY <1>9, <3>1
    <3>3. frame' \in Seq(Int)
      BY <1>10, <3>2
    <3> QED BY <3>3
  <2>2. frame' = HandlerFrame' \o (IF event'.vec \in Trap!CpuErr THEN <<event'.err>> ELSE <<>>)
    BY <1>1, <1>10
  <2> QED BY <1>1, <2>1, <2>2 DEF FrameOK
<1>12. RegsOK'
  BY <1>1, <1>2, <1>3, <1>4, <1>7 DEF RegsOK, Handling, Entry
<1>13. EventOK'
  <2>1. /\ event'.regs = r /\ event'.vec = n /\ event'.err = err /\ event'.va = va
    BY <1>1
  <2> QED BY <1>3, <1>4, <1>6, <1>8, <2>1 DEF EventOK
<1>14. EnvOK'
  <2>1. place = "user" => env.status \in {"RUNNING", "DYING"} /\ ended.how = "not"
    BY DEF TrapInv, EnvOK
  <2>2. place = "halted" => env.status = "FREE" /\ lab = 4 /\ others
    BY DEF TrapInv, EnvOK
  <2>3. env.status = "DYING" => lab = 4
    BY DEF TrapInv, EnvOK
  <2> QED BY <1>1, <1>8, <2>1, <2>2, <2>3 DEF EnvOK, Entry
<1>15. EndOK'
  BY <1>1, <1>4 DEF TrapInv, EndOK
<1>16. SetupOK' /\ Trap!KernelSurvives'
  BY <1>1 DEF TrapInv, SetupOK, Trap!KernelSurvives, Trap!Place
<1> QED BY <1>11, <1>12, <1>13, <1>14, <1>15, <1>16 DEF TrapInv

\* Which vectors a program may call.
LEMMA SoftGates ==
  ASSUME lab \in {3, 4}
  PROVE  /\ \E g \in Trap!Gate(Trap!T_SYSCALL) : g.dpl = 3
         /\ \E g \in Trap!Gate(Trap!T_BRKPT) : g.dpl = 3
         /\ ~\E g \in Trap!Gate(Trap!T_PGFLT) : g.dpl = 3
<1>1. Trap!Gate(Trap!T_SYSCALL) = {[dpl |-> 3, istrap |-> FALSE]}
  BY DEF Trap!Gate, Trap!T_SYSCALL, Trap!T_BRKPT
<1>2. Trap!Gate(Trap!T_BRKPT) = {[dpl |-> 3, istrap |-> lab = 3]}
  BY DEF Trap!Gate, Trap!T_SYSCALL, Trap!T_BRKPT, Trap!Exceptions
<1>3. Trap!Gate(Trap!T_PGFLT) = {[dpl |-> 0, istrap |-> lab = 3]}
  BY DEF Trap!Gate, Trap!T_SYSCALL, Trap!T_BRKPT, Trap!T_PGFLT, Trap!Exceptions
<1> QED BY <1>1, <1>2, <1>3

\* Numbers of exceptions.
LEMMA Vectors ==
  /\ Trap!T_DIVIDE \in Int /\ Trap!T_DIVIDE \in Trap!Exceptions
  /\ Trap!T_BRKPT \in Int /\ Trap!T_BRKPT \in Trap!Exceptions
  /\ Trap!T_GPFLT \in Int /\ Trap!T_GPFLT \in Trap!Exceptions /\ Trap!T_GPFLT \in Trap!CpuErr
  /\ Trap!T_PGFLT \in Int /\ Trap!T_PGFLT \in Trap!Exceptions /\ Trap!T_PGFLT \in Trap!CpuErr
  /\ Trap!T_SYSCALL \in Int /\ 8 * Trap!T_PGFLT + 2 \in Int
BY DEF Trap!T_DIVIDE, Trap!T_BRKPT, Trap!T_GPFLT, Trap!T_PGFLT, Trap!T_SYSCALL, Trap!Exceptions, Trap!CpuErr

\* Instructions that are no system calls have a next one.
LEMMA Middle ==
  ASSUME Trap!TrapsAssumption, SetupOK, regs.eip \in 1 .. Len(Trap!Code), Trap!Code[regs.eip].op # "sys"
  PROVE  Sound(Trap!Code[regs.eip]) /\ Resumable(Trap!Next1) /\ Trap!Next1 \in Int
<1>1. /\ Len(Trap!Code) \in Nat /\ Len(Trap!Code) > 2
      /\ Trap!Code[1].op = "sys" /\ Trap!Code[Len(Trap!Code)].op = "sys"
      /\ \A j \in 2 .. Len(Trap!Code) - 1 : Sound(Trap!Code[j])
      /\ program = "print" => Len(Trap!Code) = 3 /\ Trap!Code[2].op = "sys"
  <2>1. Trap!Getenvid.op = "sys" /\ Trap!Destroy.op = "sys" /\ \A va, len : Trap!Cputs(va, len).op = "sys"
    BY DEF Trap!Getenvid, Trap!Destroy, Trap!Cputs, Trap!Op
  <2> QED BY <2>1, CodeFacts
<1>2. regs.eip \in 2 .. Len(Trap!Code) - 1 /\ program # "print"
  BY <1>1
<1> QED BY <1>1, <1>2 DEF Resumable, Checked, Trap!Next1

LEMMA AdvanceKeeps ==
  ASSUME Trap!TrapsAssumption, TrapInv, place = "user", Trap!Advance, Resumable(Trap!Next1)
  PROVE  TrapInv'
<1>1. /\ UNCHANGED <<lab, program, others, place, frame, env, arg, event, ended>>
      /\ regs' = [regs EXCEPT !.eip = Trap!Next1]
  BY DEF Trap!Advance
<1>2. /\ Trap!Code' = Trap!Code /\ Flags' = Flags /\ Checked' = Checked
      /\ Trap!UserMemCheck(arg.va, arg.len, {"U"})' = Trap!UserMemCheck(arg.va, arg.len, {"U"})
  BY <1>1, Fixed
<1>3. Trap!Next1 \in 1 .. Len(Trap!Code)
  BY DEF Resumable
<1>4. RegsOK'
  <2>1. regs \in Registers /\ Trap!Next1 \in Int
    BY <1>3 DEF TrapInv, RegsOK
  <2>2. /\ regs' \in Registers /\ regs'.eip = Trap!Next1
        /\ regs'.cs = regs.cs /\ regs'.ss = regs.ss /\ regs'.ds = regs.ds /\ regs'.es = regs.es
        /\ regs'.eflags = regs.eflags
    BY <1>1, <2>1 DEF Registers
  <2>3. regs.cs = Trap!UserSel /\ regs.ss = 35 /\ regs.ds = 35 /\ regs.es = 35 /\ regs.eflags = Flags
    BY DEF TrapInv, RegsOK
  <2>4. Resumable(regs.eip)'
    BY <1>2, <2>2 DEF Resumable
  <2> QED BY <1>1, <1>2, <1>3, <2>2, <2>3, <2>4 DEF RegsOK, Handling, Entry
<1>5. FrameOK' /\ EventOK' /\ EnvOK' /\ EndOK' /\ SetupOK' /\ Trap!KernelSurvives'
  BY <1>1, <1>2 DEF TrapInv, FrameOK, EventOK, EnvOK, EndOK, SetupOK, Trap!KernelSurvives, Handling, Entry
<1> QED BY <1>4, <1>5 DEF TrapInv

LEMMA ExecuteKeeps ==
  ASSUME Trap!TrapsAssumption, TrapInv, Trap!Execute
  PROVE  TrapInv'
<1>1. place = "user" /\ lab \in {3, 4} /\ regs.eip \in 1 .. Len(Trap!Code) /\ Resumable(regs.eip) /\ SetupOK
      /\ regs.eip \in Int
  BY DEF Trap!Execute, Trap!AtOp, TrapInv, SetupOK, Trap!TrapsAssumption, RegsOK
<1>2. Trap!Code[regs.eip].op # "sys" => Sound(Trap!Code[regs.eip]) /\ Resumable(Trap!Next1)
        /\ Trap!Next1 \in Int
  BY <1>1, Middle
<1> USE DEF Trap!AtOp
<1>3. CASE Trap!AtOp("div") /\ Trap!Raise(Trap!T_DIVIDE, 0, 0, regs.eip)
  BY <1>1, <1>3, RaiseKeeps, Vectors
<1>4. CASE Trap!AtOp("int") /\ Trap!SoftInt(Trap!Code[regs.eip].a)
  <2>1. Trap!Code[regs.eip].a \in {Trap!T_BRKPT, Trap!T_PGFLT} /\ Resumable(Trap!Next1) /\ Trap!Next1 \in Int
    BY <1>2, <1>4 DEF Sound
  <2>2. CASE Trap!Code[regs.eip].a = Trap!T_BRKPT
    <3>1. Trap!Raise(Trap!T_BRKPT, 0, 0, Trap!Next1)
      BY <1>1, <1>4, <2>2, SoftGates DEF Trap!SoftInt
    <3> QED BY <1>1, <2>1, <3>1, RaiseKeeps, Vectors
  <2>3. CASE Trap!Code[regs.eip].a = Trap!T_PGFLT
    <3> DEFINE err == 8 * Trap!T_PGFLT + 2
    <3>1. Trap!Raise(Trap!T_GPFLT, err, 0, regs.eip)
      BY <1>1, <1>4, <2>3, SoftGates DEF Trap!SoftInt
    <3>2. err \in Int /\ Trap!T_GPFLT \in Int /\ Trap!T_GPFLT \in Trap!Exceptions
          /\ Trap!T_GPFLT \in Trap!CpuErr
      BY Vectors
    <3> HIDE DEF err
    <3> QED BY <1>1, <1>4, <3>1, <3>2, RaiseKeeps
  <2> QED BY <2>1, <2>2, <2>3
<1>5. CASE Trap!AtOp("seg") /\ Trap!Raise(Trap!T_GPFLT, Trap!Code[regs.eip].a, 0, regs.eip)
  <2>1. Trap!Code[regs.eip].a = 40
    BY <1>2, <1>5 DEF Sound
  <2> QED BY <1>1, <1>5, <2>1, RaiseKeeps, Vectors
<1>6. ASSUME NEW bit \in {{}, {"W"}}, Trap!AtOp("load") \/ Trap!AtOp("store"),
               Trap!Access(Trap!Code[regs.eip].a, bit) PROVE TrapInv'
  <2>1. Trap!Code[regs.eip].a \in Int /\ Resumable(Trap!Next1)
    BY <1>2, <1>6 DEF Sound, Instruction
  <2>2. CASE Trap!Advance
    BY <1>1, <2>1, <2>2, AdvanceKeeps
  <2>3. CASE \E err \in Int : Trap!Raise(Trap!T_PGFLT, err, Trap!Code[regs.eip].a, regs.eip)
    BY <1>1, <2>1, <2>3, RaiseKeeps, Vectors
  <2> QED BY <1>6, <2>2, <2>3 DEF Trap!Access
<1>7. CASE Trap!AtOp("sys") /\ Trap!SoftInt(Trap!T_SYSCALL)
  <2>1. Trap!Raise(Trap!T_SYSCALL, 0, 0, Trap!Next1)
    BY <1>1, <1>7, SoftGates DEF Trap!SoftInt
  <2>2. Trap!Next1 \in Int /\ Trap!Next1 - 1 = regs.eip
    BY <1>1 DEF Trap!Next1
  <2>3. Trap!Next1 > 3 => Checked
    BY <1>1, <2>2 DEF Resumable
  <2> DEFINE after == Trap!Next1
  <2>4. /\ after \in Int /\ after - 1 \in 1 .. Len(Trap!Code)
        /\ Trap!Code[after - 1].op = "sys" /\ (after > 3 => Checked)
        /\ Trap!Raise(Trap!T_SYSCALL, 0, 0, after)
    BY <1>1, <1>7, <2>1, <2>2, <2>3
  <2>5. Trap!T_SYSCALL \in Int
    BY Vectors
  <2> HIDE DEF after
  <2>6. place # "halted"
    BY <1>1
  <2> QED BY <1>1, <2>4, <2>5, <2>6, RaiseKeeps
<1> QED BY <1>3, <1>4, <1>5, <1>6, <1>7 DEF Trap!Execute

LEMMA IrqKeeps ==
  ASSUME Trap!TrapsAssumption, TrapInv, NEW n \in Trap!Interrupts, Trap!Irq(n)
  PROVE  TrapInv'
<1>1. place \in {"user", "halted"} /\ regs.eflags = Trap!FL_IF /\ Trap!Raise(n, 0, 0, regs.eip)
  BY DEF Trap!Irq
<1>2. lab = 4 /\ regs.eip \in Int /\ (place = "user" => Resumable(regs.eip))
  BY <1>1 DEF TrapInv, RegsOK, EnvOK, Flags, Trap!FL_IF
<1>3. n \in Int /\ n \in Trap!Irqs
  BY DEF Trap!Interrupts, Trap!Irqs, Trap!IRQ_TIMER, Trap!IRQ_KBD, Trap!IRQ_SPURIOUS
<1> QED BY <1>1, <1>2, <1>3, RaiseKeeps

LEMMA StubKeeps ==
  ASSUME Trap!TrapsAssumption, TrapInv, Trap!Stub
  PROVE  TrapInv'
<1>1. /\ place = "stub" /\ place' = "alltraps" /\ frame' = frame \o Trap!StubPushes(event.vec)
      /\ UNCHANGED <<lab, program, others, regs, env, arg, event, ended>>
  BY DEF Trap!Stub
<1>2. /\ Trap!Code' = Trap!Code /\ Flags' = Flags /\ Checked' = Checked
      /\ Trap!UserMemCheck(arg.va, arg.len, {"U"})' = Trap!UserMemCheck(arg.va, arg.len, {"U"})
  BY <1>1, Fixed
<1>3. event.regs \in Registers /\ event.vec \in Int /\ event.err \in Int
      /\ (event.vec \notin Trap!CpuErr => event.err = 0)
  BY <1>1 DEF TrapInv, EventOK, Handling, Entry
<1>4. HandlerFrame \in Seq(Int)
  BY <1>3 DEF HandlerFrame, Registers, Trap!FL_IF, Trap!UserSel, Trap!KernelSel
<1>5. frame' = Pushed
  <2>1. frame = HandlerFrame \o (IF event.vec \in Trap!CpuErr THEN <<event.err>> ELSE <<>>)
    BY <1>1 DEF TrapInv, FrameOK
  <2>2. CASE event.vec \in Trap!CpuErr
    <3>1. frame' = (HandlerFrame \o <<event.err>>) \o <<event.vec>>
      BY <1>1, <2>1, <2>2 DEF Trap!StubPushes, Trap!CpuErr
    <3> HIDE DEF HandlerFrame
    <3> QED BY <1>3, <1>4, <3>1 DEF Pushed
  <2>3. CASE event.vec \notin Trap!CpuErr
    <3>1. frame' = (HandlerFrame \o <<>>) \o <<0, event.vec>>
      BY <1>1, <2>1, <2>3 DEF Trap!StubPushes, Trap!CpuErr
    <3>2. HandlerFrame \o <<>> = HandlerFrame
      BY <1>4
    <3>3. Pushed = HandlerFrame \o <<0, event.vec>>
      BY <1>3, <2>3 DEF Pushed
    <3> QED BY <3>1, <3>2, <3>3
  <2> QED BY <2>2, <2>3
<1>6. FrameOK'
  <2>1. Pushed \in Seq(Int)
    BY <1>3, <1>4 DEF Pushed
  <2>2. Pushed' = Pushed
    BY <1>1 DEF Pushed, HandlerFrame, FromUser
  <2> QED BY <1>1, <1>5, <2>1, <2>2 DEF FrameOK
<1>7. RegsOK' /\ EventOK' /\ EnvOK' /\ EndOK' /\ SetupOK' /\ Trap!KernelSurvives'
  BY <1>1, <1>2
  DEF TrapInv, RegsOK, EventOK, EnvOK, EndOK, SetupOK, Trap!KernelSurvives, Handling, Entry, FromUser,
    Trap!Place,
      Resumable
<1> QED BY <1>6, <1>7 DEF TrapInv

LEMMA AllTrapsKeeps ==
  ASSUME Trap!TrapsAssumption, TrapInv, Trap!AllTraps
  PROVE  TrapInv'
<1>1. /\ place = "alltraps" /\ place' = "trap" /\ frame' = frame \o <<regs.ds, regs.es, regs.eax, regs.gpr>>
      /\ regs' = [regs EXCEPT !.ds = 16, !.es = 16]
      /\ UNCHANGED <<lab, program, others, env, arg, event, ended>>
  BY DEF Trap!AllTraps
<1>2. /\ Trap!Code' = Trap!Code /\ Flags' = Flags /\ Checked' = Checked
      /\ Trap!UserMemCheck(arg.va, arg.len, {"U"})' = Trap!UserMemCheck(arg.va, arg.len, {"U"})
  BY <1>1, Fixed
<1>3. event.regs \in Registers /\ event.vec \in Int /\ event.err \in Int
  BY <1>1 DEF TrapInv, EventOK, Handling, Entry
<1>4. frame' = Whole /\ Whole \in Seq(Int)
  <2>1. /\ regs.eax = event.regs.eax /\ regs.gpr = event.regs.gpr
        /\ regs.ds = event.regs.ds /\ regs.es = event.regs.es
    BY <1>1 DEF TrapInv, RegsOK
  <2>2. frame = Pushed
    BY <1>1 DEF TrapInv, FrameOK
  <2>3. Pushed \in Seq(Int)
    BY <1>3 DEF Pushed, HandlerFrame, Registers, Trap!FL_IF, Trap!UserSel, Trap!KernelSel
  <2>4. <<event.regs.ds, event.regs.es, event.regs.eax, event.regs.gpr>> \in Seq(Int)
    BY <1>3 DEF Registers
  <2> QED BY <1>1, <2>1, <2>2, <2>3, <2>4 DEF Whole
<1>5. FrameOK'
  <2>1. Whole' = Whole
    BY <1>1 DEF Whole, Pushed, HandlerFrame, FromUser
  <2>2. \A i \in DOMAIN frame' : frame'[i] \in Int
    BY <1>4
  <2> QED BY <1>1, <1>4, <2>1, <2>2 DEF FrameOK
<1>6. RegsOK'
  <2>1. regs \in Registers /\ regs.eip \in 1 .. Len(Trap!Code) /\ regs.cs = Trap!KernelSel /\ regs.eflags = 0
    BY <1>1 DEF TrapInv, RegsOK, Handling, Entry
  <2>2. regs' \in Registers /\ regs'.eip = regs.eip /\ regs'.cs = regs.cs /\ regs'.eflags = regs.eflags
    <3>1. DOMAIN regs = {"eip", "eax", "gpr", "esp", "eflags", "cs", "ss", "ds", "es"}
      BY <2>1 DEF Registers
    <3>2. /\ regs'.eip = regs.eip /\ regs'.eax = regs.eax /\ regs'.gpr = regs.gpr
          /\ regs'.esp = regs.esp /\ regs'.eflags = regs.eflags /\ regs'.cs = regs.cs
          /\ regs'.ss = regs.ss /\ regs'.ds = 16 /\ regs'.es = 16
      BY <1>1, <3>1
    <3> QED BY <1>1, <2>1, <3>1, <3>2 DEF Registers
  <2> QED BY <1>1, <1>2, <2>1, <2>2 DEF RegsOK
<1>7. EventOK' /\ EnvOK' /\ EndOK' /\ SetupOK' /\ Trap!KernelSurvives'
  BY <1>1, <1>2
  DEF TrapInv, EventOK, EnvOK, EndOK, SetupOK, Trap!KernelSurvives, Handling, Entry, FromUser, Trap!Place,
    Resumable
<1> QED BY <1>5, <1>6, <1>7 DEF TrapInv

LEMMA Joined ==
  ASSUME NEW x \in Seq(Int), NEW y \in Seq(Int)
  PROVE  /\ x \o y \in Seq(Int) /\ Len(x \o y) = Len(x) + Len(y)
         /\ \A i \in 1 .. Len(x) : (x \o y)[i] = x[i]
         /\ \A j \in 1 .. Len(y) : (x \o y)[Len(x) + j] = y[j]
OBVIOUS

\* What trap() reads is what was pushed.
LEMMA FrameRead ==
  ASSUME event.regs \in Registers, event.vec \in Int, event.err \in Int, frame = Whole
  PROVE  LET tf == Trap!Trapframe(frame) IN
         /\ FromUser => tf = Saved(event.regs.eax)
         /\ tf.trapno = event.vec /\ tf.err = event.err
         /\ tf.eip = event.regs.eip /\ tf.cs = event.regs.cs /\ tf.eflags = event.regs.eflags
         /\ tf.eax = event.regs.eax /\ tf.gpr = event.regs.gpr
         /\ tf.ds = event.regs.ds /\ tf.es = event.regs.es
<1> DEFINE r == event.regs
           s == IF FromUser THEN r.ss ELSE 0
           t == IF FromUser THEN r.esp ELSE 0
<1>1. s \in Int /\ t \in Int
  BY DEF Registers
<1>2. Len(frame) = 11 /\ \A i \in 1 .. 5 : frame[i] = HandlerFrame[i]
      /\ frame[6] = event.err /\ frame[7] = event.vec
      /\ frame[8] = r.ds /\ frame[9] = r.es /\ frame[10] = r.eax /\ frame[11] = r.gpr
  <2> DEFINE x == HandlerFrame
             y == <<event.err, event.vec>>
             z == <<r.ds, r.es, r.eax, r.gpr>>
  <2>1. x \in Seq(Int) /\ Len(x) = 5
    BY <1>1 DEF HandlerFrame, Registers, Trap!FL_IF, Trap!UserSel, Trap!KernelSel
  <2>2. y \in Seq(Int) /\ Len(y) = 2 /\ y[1] = event.err /\ y[2] = event.vec
    OBVIOUS
  <2>3. z \in Seq(Int) /\ Len(z) = 4 /\ z[1] = r.ds /\ z[2] = r.es /\ z[3] = r.eax /\ z[4] = r.gpr
    BY DEF Registers
  <2>4. Pushed = x \o y /\ frame = Pushed \o z
    BY DEF Pushed, Whole
  <2> HIDE DEF x, y, z
  <2>5. /\ Pushed \in Seq(Int) /\ Len(Pushed) = 7
        /\ \A i \in 1 .. 5 : Pushed[i] = x[i]
        /\ Pushed[6] = y[1] /\ Pushed[7] = y[2]
    <3>1. /\ x \o y \in Seq(Int) /\ Len(x \o y) = Len(x) + Len(y)
          /\ \A i \in 1 .. Len(x) : (x \o y)[i] = x[i]
          /\ \A j \in 1 .. Len(y) : (x \o y)[Len(x) + j] = y[j]
      BY <2>1, <2>2, Joined
    <3>2. 1 \in 1 .. Len(y) /\ 2 \in 1 .. Len(y)
      BY <2>2
    <3>3. (x \o y)[Len(x) + 1] = y[1] /\ (x \o y)[Len(x) + 2] = y[2]
      BY <3>1, <3>2
    <3>4. Len(x) + 1 = 6 /\ Len(x) + 2 = 7 /\ Len(x) + Len(y) = 7
      BY <2>1, <2>2
    <3>5. 1 .. Len(x) = 1 .. 5
      BY <2>1
    <3> QED BY <2>4, <3>1, <3>3, <3>4, <3>5
  <2>6. /\ Len(frame) = 11
        /\ \A i \in 1 .. 7 : frame[i] = Pushed[i]
        /\ frame[8] = z[1] /\ frame[9] = z[2] /\ frame[10] = z[3] /\ frame[11] = z[4]
    <3>1. /\ Len(Pushed \o z) = Len(Pushed) + Len(z)
          /\ \A i \in 1 .. Len(Pushed) : (Pushed \o z)[i] = Pushed[i]
          /\ \A j \in 1 .. Len(z) : (Pushed \o z)[Len(Pushed) + j] = z[j]
      BY <2>3, <2>5, Joined
    <3>2. 1 \in 1 .. Len(z) /\ 2 \in 1 .. Len(z) /\ 3 \in 1 .. Len(z) /\ 4 \in 1 .. Len(z)
      BY <2>3
    <3>3. /\ (Pushed \o z)[Len(Pushed) + 1] = z[1] /\ (Pushed \o z)[Len(Pushed) + 2] = z[2]
          /\ (Pushed \o z)[Len(Pushed) + 3] = z[3] /\ (Pushed \o z)[Len(Pushed) + 4] = z[4]
      BY <3>1, <3>2
    <3>4. /\ Len(Pushed) + 1 = 8 /\ Len(Pushed) + 2 = 9 /\ Len(Pushed) + 3 = 10
          /\ Len(Pushed) + 4 = 11 /\ Len(Pushed) + Len(z) = 11
      BY <2>3, <2>5
    <3>5. 1 .. Len(Pushed) = 1 .. 7
      BY <2>5
    <3> QED BY <2>4, <3>1, <3>3, <3>4, <3>5
  <2> QED BY <2>2, <2>3, <2>5, <2>6 DEF x
<1>3. HandlerFrame[1] = s /\ HandlerFrame[2] = t /\ HandlerFrame[3] = r.eflags
      /\ HandlerFrame[4] = r.cs /\ HandlerFrame[5] = r.eip
  BY DEF HandlerFrame
<1>4. Trap!Trapframe(frame) =
        [gpr |-> r.gpr, eax |-> r.eax, es |-> r.es, ds |-> r.ds, trapno |-> event.vec, err |-> event.err,
         eip |-> r.eip, cs |-> r.cs, eflags |-> r.eflags, esp |-> t, ss |-> s]
  BY <1>2, <1>3 DEF Trap!Trapframe
<1> QED BY <1>4 DEF Saved

\* The environment is gone: the CPU halts, or enters the monitor for good.
LEMMA DesertedKeeps ==
  ASSUME Trap!TrapsAssumption, TrapInv, place \in {"trap", "dispatch"}, FromUser,
         place' = Trap!Deserted, frame' = <<0, 0>>, regs' = [regs EXCEPT !.eflags = Trap!FL_IF],
         env' = [env EXCEPT !.status = "FREE"], UNCHANGED <<lab, program, others, arg, event>>,
         DOMAIN ended' = {"how", "vec", "err", "va"},
         program = "print" =>
           /\ ended'.how = "exit" => Checked
           /\ ended'.how = "user_mem_assert" =>
                ~Checked /\ ended'.va = (CHOOSE va \in Trap!UserMemCheck(arg.va, arg.len, {"U"}) : TRUE)
  PROVE  TrapInv'
<1>1. /\ Trap!Code' = Trap!Code /\ Flags' = Flags /\ Checked' = Checked
      /\ Trap!UserMemCheck(arg.va, arg.len, {"U"})' = Trap!UserMemCheck(arg.va, arg.len, {"U"})
  BY Fixed
<1>2. place' \in {"halted", "monitor"} /\ (place' = "halted" => lab = 4 /\ others)
  BY DEF Trap!Deserted, TrapInv, SetupOK
<1>3. /\ env'.status = "FREE" /\ DOMAIN env' = {"status", "tf"}
  BY DEF TrapInv, SetupOK
<1>4. regs \in Registers /\ regs.eip \in 1 .. Len(Trap!Code) /\ regs.cs = Trap!KernelSel
  BY DEF TrapInv, RegsOK, Handling, Entry
<1>5. regs' \in Registers /\ regs'.eip = regs.eip /\ regs'.cs = regs.cs /\ regs'.eflags = Trap!FL_IF
  BY <1>4 DEF Registers
<1>6. FrameOK'
  <2>1. \A i \in DOMAIN <<0, 0>> : <<0, 0>>[i] \in Int
    OBVIOUS
  <2> QED BY <1>2, <2>1 DEF FrameOK
<1>7. ~Handling'
  BY <1>2, <1>3 DEF Handling, Entry
<1>8. RegsOK'
  BY <1>1, <1>2, <1>4, <1>5, <1>7 DEF RegsOK
<1>9. EventOK' /\ EnvOK'
  BY <1>2, <1>3, <1>7 DEF EventOK, EnvOK
<1>10. EndOK'
  BY <1>1 DEF EndOK
<1>11. SetupOK' /\ Trap!KernelSurvives'
  BY <1>2, <1>3 DEF TrapInv, SetupOK, Trap!KernelSurvives, Trap!Place
<1> QED BY <1>6, <1>8, <1>9, <1>10, <1>11 DEF TrapInv

\* What trap() and trap_dispatch() work with.
LEMMA InKernel ==
  ASSUME Trap!TrapsAssumption, TrapInv, place \in {"trap", "dispatch"}
  PROVE  /\ Trap!Trapno = event.vec /\ (Trap!Kernel <=> ~FromUser)
         /\ (Trap!Mode(Trap!Trapframe(frame).cs) = 0 <=> ~FromUser)
         /\ (FromUser => Trap!Trapframe(frame) = Saved(event.regs.eax))
         /\ event.regs \in Registers /\ event.vec \in Int /\ event.err \in Int
         /\ regs.eflags = 0
<1>1. event.regs \in Registers /\ event.vec \in Int /\ event.err \in Int /\ frame = Whole /\ regs.eflags = 0
  BY DEF TrapInv, EventOK, Handling, Entry, FrameOK, RegsOK
<1>2. event.regs.cs \in {Trap!UserSel, Trap!KernelSel}
  BY <1>1 DEF Registers
<1>3. Trap!Mode(Trap!UserSel) # 0 /\ Trap!Mode(Trap!KernelSel) = 0 /\ Trap!UserSel # Trap!KernelSel
  BY DEF Trap!Mode, Trap!UserSel, Trap!KernelSel
<1> QED BY <1>1, <1>2, <1>3, FrameRead DEF Trap!Trapno, Trap!Kernel, FromUser

LEMMA TrapKeeps ==
  ASSUME Trap!TrapsAssumption, TrapInv, Trap!Trap
  PROVE  TrapInv'
<1>1. place = "trap" /\ UNCHANGED <<lab, program, others, arg, event>>
  BY DEF Trap!Trap, Trap!Stop
<1>2. /\ (Trap!Mode(Trap!Trapframe(frame).cs) = 0 <=> ~FromUser)
      /\ (FromUser => Trap!Trapframe(frame) = Saved(event.regs.eax))
      /\ event.regs \in Registers /\ regs.eflags = 0
  BY <1>1, InKernel
<1>3. /\ Trap!Code' = Trap!Code /\ Flags' = Flags /\ Checked' = Checked
      /\ Trap!UserMemCheck(arg.va, arg.len, {"U"})' = Trap!UserMemCheck(arg.va, arg.len, {"U"})
  BY <1>1, Fixed
<1>4. /\ DOMAIN env = {"status", "tf"} /\ DOMAIN ended = {"how", "vec", "err", "va"}
  BY DEF TrapInv, SetupOK
<1>5. CASE FromUser /\ lab = 4 /\ env.status = "DYING"
  <2>1. /\ place' = Trap!Deserted /\ frame' = <<0, 0>> /\ regs' = [regs EXCEPT !.eflags = Trap!FL_IF]
        /\ env' = [env EXCEPT !.status = "FREE"] /\ ended' = [ended EXCEPT !.how = "killed"]
    BY <1>1, <1>2, <1>5 DEF Trap!Trap
  <2>2. ended'.how = "killed" /\ DOMAIN ended' = {"how", "vec", "err", "va"}
    BY <1>4, <2>1
  <2> QED BY <1>1, <1>5, <2>1, <2>2, DesertedKeeps
<1>6. CASE ~(FromUser /\ lab = 4 /\ env.status = "DYING")
  <2>1. /\ place' = "dispatch" /\ UNCHANGED <<regs, frame, ended>>
        /\ env' = IF FromUser THEN [env EXCEPT !.tf = Saved(event.regs.eax)] ELSE env
    BY <1>1, <1>2, <1>6 DEF Trap!Trap, Trap!Stop
  <2>2. /\ env'.status = env.status /\ DOMAIN env' = {"status", "tf"}
        /\ FromUser => env'.tf = Saved(event.regs.eax)
    BY <1>4, <2>1
  <2>3. FromUser' = FromUser /\ \A x : Saved(x)' = Saved(x)
    BY <1>1 DEF FromUser, Saved
  <2>4. FrameOK'
    BY <1>1, <2>1 DEF TrapInv, FrameOK, Whole, Pushed, HandlerFrame, FromUser
  <2>5. RegsOK'
    BY <1>1, <1>3, <2>1 DEF TrapInv, RegsOK, Handling, Entry
  <2>6. EventOK'
    BY <1>1, <1>3, <2>1, <2>3 DEF TrapInv, EventOK, Handling, Entry, Resumable
  <2>7. EnvOK'
    <3>1. /\ env.status = "DYING" => lab = 4
          /\ IF FromUser THEN env.status = "RUNNING" \/ env.status = "DYING"
             ELSE env.status = "FREE" /\ lab = 4 /\ others
          /\ FromUser => ended.how = "not"
      BY <1>1 DEF TrapInv, EnvOK, Handling, Entry
    <3>2. FromUser => Saved(event.regs.eax).eax = event.regs.eax /\ event.regs.eax \in Int
      BY <1>2 DEF Saved, Registers
    <3> QED BY <1>1, <1>6, <2>1, <2>2, <2>3, <3>1, <3>2 DEF EnvOK, Handling, Entry
  <2>8. EndOK' /\ SetupOK' /\ Trap!KernelSurvives'
    BY <1>1, <1>3, <2>1, <2>2 DEF TrapInv, EndOK, SetupOK, Trap!KernelSurvives, Trap!Place
  <2> QED BY <2>4, <2>5, <2>6, <2>7, <2>8 DEF TrapInv
<1> QED BY <1>5, <1>6

\* trap_dispatch goes on with the environment.
LEMMA GoOnKeeps ==
  ASSUME Trap!TrapsAssumption, TrapInv, place = "dispatch", FromUser,
         UNCHANGED <<lab, program, others, regs, frame, arg, event, ended>>,
         place' \in {"return", "monitor"}, place' = "monitor" => event.vec = Trap!T_BRKPT,
         NEW eax \in Int, eax = event.regs.eax \/ (event.vec = Trap!T_SYSCALL /\ place' = "return"),
         DOMAIN env' = DOMAIN env, env'.status = env.status, env'.tf = Saved(eax),
         place' = "return" => Resumable(event.regs.eip)
  PROVE  TrapInv'
<1>1. /\ Trap!Code' = Trap!Code /\ Flags' = Flags /\ Checked' = Checked
      /\ Trap!UserMemCheck(arg.va, arg.len, {"U"})' = Trap!UserMemCheck(arg.va, arg.len, {"U"})
  BY Fixed
<1>2. /\ env.status = "RUNNING" /\ ended.how = "not" /\ env.tf = Saved(env.tf.eax)
  BY DEF TrapInv, EnvOK, Handling, Entry
<1>3. env'.status = "RUNNING" /\ DOMAIN env' = {"status", "tf"} /\ env'.tf = Saved(eax)
  BY <1>2 DEF TrapInv, SetupOK
<1>4. Saved(eax).eax = eax /\ FromUser' = FromUser /\ Saved(eax)' = Saved(eax)
  BY DEF Saved, FromUser
<1>5. FrameOK'
  BY DEF TrapInv, FrameOK
<1>6. RegsOK'
  BY <1>1 DEF TrapInv, RegsOK, Handling, Entry
<1>7. EventOK'
  BY <1>1 DEF TrapInv, EventOK, Handling, Entry, Resumable, FromUser
<1>8. EnvOK'
  <2>1. place' = "return" => Resumable(event.regs.eip)'
    BY <1>1 DEF Resumable
  <2> QED BY <1>1, <1>2, <1>3, <1>4, <2>1 DEF EnvOK, Handling, Entry
<1>9. EndOK' /\ SetupOK' /\ Trap!KernelSurvives'
  BY <1>1, <1>3 DEF TrapInv, EndOK, SetupOK, Trap!KernelSurvives, Trap!Place
<1> QED BY <1>5, <1>6, <1>7, <1>8, <1>9 DEF TrapInv

\* env_destroy(curenv).
LEMMA DestroyKeeps ==
  ASSUME Trap!TrapsAssumption, TrapInv, place = "dispatch", FromUser, NEW how, NEW va, Trap!EnvDestroy(how, va),
         program = "print" =>
           /\ how = "exit" => Checked
           /\ how = "user_mem_assert" =>
                ~Checked /\ va = (CHOOSE x \in Trap!UserMemCheck(arg.va, arg.len, {"U"}) : TRUE)
  PROVE  TrapInv'
<1>1. /\ ended' = [how |-> how, vec |-> env.tf.trapno, err |-> env.tf.err, va |-> va]
      /\ place' = Trap!Deserted /\ frame' = <<0, 0>> /\ regs' = [regs EXCEPT !.eflags = Trap!FL_IF]
      /\ env' = [env EXCEPT !.status = "FREE"] /\ UNCHANGED <<lab, program, others, arg, event>>
  BY DEF Trap!EnvDestroy
<1>2. ended'.how = how /\ ended'.va = va /\ DOMAIN ended' = {"how", "vec", "err", "va"}
  BY <1>1
<1> QED BY <1>1, <1>2, DesertedKeeps

\* An interrupt finds nothing to run, or a key makes the kernel panic.
LEMMA IdleKeeps ==
  ASSUME Trap!TrapsAssumption, TrapInv, place = "dispatch", ~FromUser,
         UNCHANGED <<lab, program, others, regs, frame, env, arg, event, ended>>,
         place' \in {"return", "panic"}, place' = "panic" => event.vec = Trap!IRQ_KBD
  PROVE  TrapInv'
<1>1. /\ Trap!Code' = Trap!Code /\ Flags' = Flags /\ Checked' = Checked
      /\ Trap!UserMemCheck(arg.va, arg.len, {"U"})' = Trap!UserMemCheck(arg.va, arg.len, {"U"})
  BY Fixed
<1>2. Trap!Mode(event.regs.cs) = 0
  <2>1. event.regs.cs = Trap!KernelSel
    BY DEF TrapInv, EventOK, Handling, Entry, FromUser, Registers
  <2> QED BY <2>1 DEF Trap!Mode, Trap!KernelSel
<1>3. FrameOK' /\ RegsOK'
  BY <1>1 DEF TrapInv, FrameOK, RegsOK, Handling, Entry
<1>4. EventOK' /\ EnvOK'
  BY <1>1 DEF TrapInv, EventOK, EnvOK, Handling, Entry, Resumable, FromUser
<1>5. EndOK' /\ SetupOK' /\ Trap!KernelSurvives'
  BY <1>1, <1>2 DEF TrapInv, EndOK, SetupOK, Trap!KernelSurvives, Trap!Place
<1> QED BY <1>3, <1>4, <1>5 DEF TrapInv

LEMMA SyscallKeeps ==
  ASSUME Trap!TrapsAssumption, TrapInv, place = "dispatch", event.vec = Trap!T_SYSCALL, Trap!Syscall
  PROVE  TrapInv'
<1> DEFINE i == Trap!Code[env.tf.eip - 1]
           bad == Trap!UserMemCheck(i.b[1], i.b[2], {"U"})
           e == event.regs.eip
<1>1. FromUser
  BY DEF TrapInv, EventOK, Handling, Entry, Trap!Interrupts, Trap!T_SYSCALL, Trap!IRQ_TIMER,
    Trap!IRQ_KBD, Trap!IRQ_SPURIOUS
<1>2. /\ e \in Int /\ e - 1 \in 1 .. Len(Trap!Code) /\ Trap!Code[e - 1].op = "sys" /\ (e > 3 => Checked)
      /\ event.regs.eax \in Int
  BY <1>1 DEF TrapInv, EventOK, Handling, Entry, Trap!Exceptions, Trap!Interrupts, Trap!T_SYSCALL,
    Trap!IRQ_TIMER, Trap!IRQ_KBD,
              Trap!IRQ_SPURIOUS, Registers
<1>3. env.tf = Saved(env.tf.eax) /\ env.tf.eax = event.regs.eax /\ env.tf.eip = e
      /\ DOMAIN env = {"status", "tf"}
  BY <1>1 DEF TrapInv, EnvOK, Handling, Entry, SetupOK, Saved
<1>4. i = Trap!Code[e - 1]
  BY <1>3
<1>5. /\ Len(Trap!Code) \in Nat /\ Len(Trap!Code) > 2
      /\ Trap!Code[1].a = "getenvid" /\ Trap!Code[Len(Trap!Code)].a = "destroy"
      /\ program = "print" => Len(Trap!Code) = 3 /\ Trap!Code[2].a = "cputs"
           /\ Trap!Code[2].b = <<arg.va, arg.len>>
      /\ \A j \in 2 .. Len(Trap!Code) - 1 : Sound(Trap!Code[j])
  BY CodeFacts DEF TrapInv, Trap!Getenvid, Trap!Destroy, Trap!Cputs, Trap!Op
<1>6. i.a = "destroy" => e - 1 = Len(Trap!Code)
  <2>1. \A j \in 2 .. Len(Trap!Code) - 1 : Trap!Code[j].op = "sys" => Trap!Code[j].a # "destroy"
    BY <1>5 DEF Sound, Instruction
  <2> QED BY <1>2, <1>4, <1>5, <2>1
<1>7. program = "print" /\ i.a = "cputs" => e = 3 /\ bad = Trap!UserMemCheck(arg.va, arg.len, {"U"})
  <2> SUFFICES ASSUME program = "print", i.a = "cputs"
               PROVE e = 3 /\ bad = Trap!UserMemCheck(arg.va, arg.len, {"U"})
    OBVIOUS
  <2>1. e = 3
    <3>1. e - 1 = 1 \/ e - 1 = 2 \/ e - 1 = 3
      <4>1. Len(Trap!Code) = 3
        BY <1>5
      <4> HIDE DEF e, i
      <4>2. e \in Int /\ e - 1 \in 1 .. 3
        BY <1>2, <4>1
      <4> QED BY <4>2
    <3>2. e - 1 # 1 /\ e - 1 # 3
      BY <1>4, <1>5
    <3> QED BY <1>2, <3>1, <3>2
  <2>2. i.b[1] = arg.va /\ i.b[2] = arg.len
    BY <1>4, <1>5, <2>1
  <2> QED BY <2>1, <2>2
<1>8. program = "print" /\ i.a = "destroy" => Checked
  BY <1>2, <1>5, <1>6
<1>9. i.a # "destroy" => e \in 1 .. Len(Trap!Code)
  BY <1>2, <1>4, <1>5
<1>10. i.a # "destroy" /\ (i.a = "cputs" => bad = {}) => Resumable(e)
  <2> SUFFICES ASSUME i.a # "destroy", i.a = "cputs" => bad = {}, e > 2 PROVE Checked
    BY <1>9 DEF Resumable
  <2>1. CASE e > 3
    BY <1>2, <2>1
  <2>2. CASE e = 3 /\ program = "print"
    <3>1. i.a = "cputs"
      BY <1>4, <1>5, <2>2
    <3> QED BY <1>7, <2>2, <3>1 DEF Checked
  <2>3. CASE program # "print"
    BY <2>3 DEF Checked
  <2> QED BY <1>2, <2>1, <2>2, <2>3
<1> HIDE DEF i, bad, e
<1>11. ASSUME NEW eax \in Int, Trap!Return(eax), i.a # "destroy", i.a = "cputs" => bad = {} PROVE TrapInv'
  <2>1. /\ env' = [env EXCEPT !.tf.eax = eax] /\ place' = "return"
        /\ UNCHANGED <<lab, program, others, regs, frame, arg, event, ended>>
    BY <1>11 DEF Trap!Return, Trap!Stop
  <2>2. env'.tf = [env.tf EXCEPT !.eax = eax] /\ env'.status = env.status /\ DOMAIN env' = DOMAIN env
    BY <1>3, <2>1
  <2>3. [Saved(env.tf.eax) EXCEPT !.eax = eax] = Saved(eax)
    BY DEF Saved
  <2> QED BY <1>1, <1>3, <1>10, <1>11, <2>1, <2>2, <2>3, GoOnKeeps DEF e
<1>12. CASE i.a = "destroy" /\ Trap!EnvDestroy("exit", 0)
  BY <1>1, <1>8, <1>12, DestroyKeeps
<1>13. CASE i.a = "cputs" /\ bad # {} /\ Trap!EnvDestroy("user_mem_assert", CHOOSE va \in bad : TRUE)
  BY <1>1, <1>7, <1>13, DestroyKeeps DEF Checked
<1>14. CASE i.a = "yield" /\ Trap!Stop("return") /\ UNCHANGED <<frame, env, ended>>
  <2>1. /\ place' = "return" /\ UNCHANGED <<lab, program, others, regs, frame, arg, event, ended, env>>
    BY <1>14 DEF Trap!Stop
  <2> QED BY <1>1, <1>2, <1>3, <1>10, <1>14, <2>1, GoOnKeeps DEF e
<1>15. \/ i.a = "getenvid" /\ Trap!Return(1000)
       \/ i.a = "destroy" /\ Trap!EnvDestroy("exit", 0)
       \/ i.a = "cputs" /\ bad = {} /\ Trap!Return(0)
       \/ i.a = "cputs" /\ bad # {} /\ Trap!EnvDestroy("user_mem_assert", CHOOSE va \in bad : TRUE)
       \/ i.a = "yield" /\ Trap!Stop("return") /\ UNCHANGED <<frame, env, ended>>
       \/ i.a \notin {"destroy", "cputs"} /\ Trap!Return(Trap!E_INVAL)
  BY DEF Trap!Syscall, i, bad
<1>16. Trap!E_INVAL \in Int
  BY DEF Trap!E_INVAL
<1> QED BY <1>11, <1>12, <1>13, <1>14, <1>15, <1>16

LEMMA DispatchKeeps ==
  ASSUME Trap!TrapsAssumption, TrapInv, Trap!TrapDispatch
  PROVE  TrapInv'
<1>1. place = "dispatch"
  BY DEF Trap!TrapDispatch
<1>2. Trap!Trapno = event.vec /\ (Trap!Kernel <=> ~FromUser) /\ event.regs \in Registers
  BY <1>1, InKernel
<1>3. /\ FromUser =>
           \/ event.vec = Trap!T_SYSCALL
           \/ event.vec \in Trap!Exceptions \cup Trap!Interrupts /\ Resumable(event.regs.eip)
      /\ ~FromUser => event.vec \in Trap!Interrupts /\ lab = 4
      /\ event.regs.eax \in Int
  BY <1>1, <1>2 DEF TrapInv, EventOK, EnvOK, Handling, Entry, Registers
<1>4. /\ Trap!T_PGFLT \notin Trap!Interrupts /\ Trap!T_BRKPT \notin Trap!Interrupts
      /\ Trap!T_SYSCALL \notin Trap!Interrupts
      /\ Trap!Interrupts = {Trap!IRQ_TIMER, Trap!IRQ_KBD, Trap!IRQ_SPURIOUS}
      /\ Trap!T_SYSCALL \notin {Trap!T_PGFLT, Trap!T_BRKPT, Trap!IRQ_TIMER, Trap!IRQ_SPURIOUS}
  BY DEF Trap!Interrupts, Trap!T_PGFLT, Trap!T_BRKPT, Trap!T_SYSCALL, Trap!IRQ_TIMER, Trap!IRQ_KBD,
    Trap!IRQ_SPURIOUS
<1>5. ASSUME FromUser, place' \in {"return", "monitor"},
               UNCHANGED <<lab, program, others, regs, frame, arg, event, ended, env>>,
             place' = "monitor" => event.vec = Trap!T_BRKPT, event.vec # Trap!T_SYSCALL
      PROVE  TrapInv'
  <2>1. env.tf = Saved(event.regs.eax)
    BY <1>1, <1>5 DEF TrapInv, EnvOK, Handling, Entry
  <2> QED BY <1>1, <1>3, <1>5, <2>1, GoOnKeeps
<1>6. CASE Trap!Trapno = Trap!T_PGFLT /\ Trap!PageFaultHandler
  <2>1. FromUser
    BY <1>2, <1>3, <1>4, <1>6
  <2>2. Trap!EnvDestroy("fault", event.va)
    BY <1>2, <1>6, <2>1 DEF Trap!PageFaultHandler
  <2> QED BY <1>1, <2>1, <2>2, DestroyKeeps
<1>7. CASE Trap!Trapno = Trap!T_BRKPT /\ Trap!Stop("monitor") /\ UNCHANGED <<frame, env, ended>>
  <2>1. FromUser /\ event.vec = Trap!T_BRKPT /\ event.vec # Trap!T_SYSCALL
    BY <1>2, <1>3, <1>4, <1>7
  <2> QED BY <1>5, <1>7, <2>1 DEF Trap!Stop
<1>8. CASE Trap!Trapno = Trap!T_SYSCALL /\ Trap!Syscall
  BY <1>1, <1>2, <1>8, SyscallKeeps
<1>9. CASE Trap!Trapno \in {Trap!IRQ_SPURIOUS, Trap!IRQ_TIMER} /\ Trap!Stop("return")
           /\ UNCHANGED <<frame, env, ended>>
  <2>1. event.vec # Trap!T_SYSCALL
    BY <1>2, <1>4, <1>9
  <2>2. CASE FromUser
    BY <1>5, <1>9, <2>1, <2>2 DEF Trap!Stop
  <2>3. CASE ~FromUser
    BY <1>1, <1>9, <2>3, IdleKeeps DEF Trap!Stop
  <2> QED BY <2>2, <2>3
<1>10. CASE ~(lab = 4 /\ Trap!Trapno \in {Trap!IRQ_SPURIOUS, Trap!IRQ_TIMER}) /\ Trap!Unexpected
  <2>1. CASE FromUser
    <3>1. Trap!EnvDestroy("trap", 0)
      BY <1>2, <1>10, <2>1 DEF Trap!Unexpected
    <3> QED BY <1>1, <2>1, <3>1, DestroyKeeps
  <2>2. CASE ~FromUser
    <3>1. Trap!Stop("panic") /\ UNCHANGED <<frame, env, ended>>
      BY <1>2, <1>10, <2>2 DEF Trap!Unexpected
    <3>2. event.vec = Trap!IRQ_KBD
      BY <1>2, <1>3, <1>4, <1>10, <2>2
    <3> QED BY <1>1, <2>2, <3>1, <3>2, IdleKeeps DEF Trap!Stop
  <2> QED BY <2>1, <2>2
<1> QED BY <1>6, <1>7, <1>8, <1>9, <1>10 DEF Trap!TrapDispatch

LEMMA MonitorReturnsKeeps ==
  ASSUME Trap!TrapsAssumption, TrapInv, Trap!MonitorReturns
  PROVE  TrapInv'
<1>1. /\ place = "monitor" /\ env.status = "RUNNING" /\ place' = "return"
      /\ UNCHANGED <<lab, program, others, regs, frame, env, arg, event, ended>>
  BY DEF Trap!MonitorReturns, Trap!Stop
<1>2. /\ Trap!Code' = Trap!Code /\ Flags' = Flags /\ Checked' = Checked
      /\ Trap!UserMemCheck(arg.va, arg.len, {"U"})' = Trap!UserMemCheck(arg.va, arg.len, {"U"})
  BY <1>1, Fixed
<1>3. Resumable(event.regs.eip)
  <2>1. event.vec = Trap!T_BRKPT /\ FromUser /\ Handling
    BY <1>1 DEF TrapInv, EnvOK, Handling
  <2> QED BY <2>1 DEF TrapInv, EventOK, Trap!T_BRKPT, Trap!T_SYSCALL
<1>4. Resumable(event.regs.eip)'
  BY <1>1, <1>2, <1>3 DEF Resumable
<1>5. FrameOK' /\ RegsOK'
  BY <1>1, <1>2 DEF TrapInv, FrameOK, RegsOK, Handling, Entry
<1>6. EventOK'
  BY <1>1, <1>2 DEF TrapInv, EventOK, Handling, Entry, Resumable, FromUser
<1>7. EnvOK'
  BY <1>1, <1>2, <1>4 DEF TrapInv, EnvOK, Handling, Entry, FromUser, Saved
<1>8. EndOK' /\ SetupOK' /\ Trap!KernelSurvives'
  BY <1>1, <1>2 DEF TrapInv, EndOK, SetupOK, Trap!KernelSurvives, Trap!Place
<1> QED BY <1>5, <1>6, <1>7, <1>8 DEF TrapInv

\* What env_pop_tf restores.
LEMMA Popped ==
  ASSUME Trap!TrapsAssumption, TrapInv, Trap!EnvPopTf
  PROVE  /\ FromUser /\ event.regs \in Registers /\ regs' \in Registers /\ Resumable(event.regs.eip)
         /\ regs' = [event.regs EXCEPT !.eax = env.tf.eax]
         /\ env.tf.eax = event.regs.eax \/ event.vec = Trap!T_SYSCALL
<1>1. place = "return" /\ env.status = "RUNNING"
  BY DEF Trap!EnvPopTf
<1>2. FromUser /\ event.regs \in Registers
  BY <1>1 DEF TrapInv, EventOK, EnvOK, Handling, Entry
<1>3. /\ Resumable(event.regs.eip) /\ env.tf = Saved(env.tf.eax) /\ env.tf.eax \in Int
      /\ env.tf.eax = event.regs.eax \/ event.vec = Trap!T_SYSCALL
  BY <1>1, <1>2 DEF TrapInv, EnvOK, Handling, Entry
<1>4. regs' = [event.regs EXCEPT !.eax = env.tf.eax]
  <2> DEFINE r == event.regs
             a == env.tf.eax
  <2>1. /\ env.tf.eip = r.eip /\ env.tf.gpr = r.gpr /\ env.tf.esp = r.esp /\ env.tf.eflags = r.eflags
        /\ env.tf.cs = r.cs /\ env.tf.ss = r.ss /\ env.tf.ds = r.ds /\ env.tf.es = r.es
    BY <1>3 DEF Saved
  <2>2. regs' = [eip |-> r.eip, eax |-> a, gpr |-> r.gpr, esp |-> r.esp, eflags |-> r.eflags,
                 cs |-> r.cs, ss |-> r.ss, ds |-> r.ds, es |-> r.es]
    BY <2>1 DEF Trap!EnvPopTf
  <2> HIDE DEF r, a
  <2>3. r \in Registers
    BY <1>2 DEF r
  <2>4. regs' = [r EXCEPT !.eax = a]
    BY <2>2, <2>3 DEF Registers
  <2> QED BY <2>4 DEF r, a
<1>5. regs' \in Registers
  BY <1>2, <1>3, <1>4 DEF Registers
<1> QED BY <1>2, <1>3, <1>4, <1>5

LEMMA EnvPopTfKeeps ==
  ASSUME Trap!TrapsAssumption, TrapInv, Trap!EnvPopTf
  PROVE  TrapInv'
<1>1. /\ place = "return" /\ env.status = "RUNNING" /\ place' = "user" /\ frame' = <<>>
      /\ UNCHANGED <<lab, program, others, env, arg, event, ended>>
  BY DEF Trap!EnvPopTf
<1>2. /\ Trap!Code' = Trap!Code /\ Flags' = Flags /\ Checked' = Checked
      /\ Trap!UserMemCheck(arg.va, arg.len, {"U"})' = Trap!UserMemCheck(arg.va, arg.len, {"U"})
  BY <1>1, Fixed
<1>3. /\ FromUser /\ event.regs \in Registers /\ regs' \in Registers /\ Resumable(event.regs.eip)
      /\ regs'.eip = event.regs.eip /\ regs'.cs = event.regs.cs /\ regs'.ss = event.regs.ss
      /\ regs'.ds = event.regs.ds /\ regs'.es = event.regs.es /\ regs'.eflags = event.regs.eflags
  <2>1. /\ FromUser /\ event.regs \in Registers /\ regs' \in Registers /\ Resumable(event.regs.eip)
        /\ regs' = [event.regs EXCEPT !.eax = env.tf.eax]
    BY Popped
  <2> QED BY <2>1 DEF Registers
<1>4. /\ event.regs.cs = Trap!UserSel /\ event.regs.ss = 35 /\ event.regs.ds = 35 /\ event.regs.es = 35
      /\ event.regs.eflags = Flags /\ ended.how = "not"
  BY <1>1, <1>3 DEF TrapInv, EventOK, EnvOK, Handling, Entry, FromUser
<1>5. FrameOK'
  BY <1>1 DEF FrameOK
<1>6. RegsOK'
  <2>1. Resumable(regs.eip)' /\ regs'.eip \in 1 .. Len(Trap!Code)
    BY <1>2, <1>3 DEF Resumable
  <2> QED BY <1>1, <1>2, <1>3, <1>4, <2>1 DEF RegsOK, Handling, Entry
<1>7. EventOK' /\ EnvOK'
  BY <1>1, <1>4 DEF EventOK, EnvOK, Handling, Entry
<1>8. EndOK' /\ SetupOK' /\ Trap!KernelSurvives'
  BY <1>1, <1>2 DEF TrapInv, EndOK, SetupOK, Trap!KernelSurvives, Trap!Place
<1> QED BY <1>5, <1>6, <1>7, <1>8 DEF TrapInv

LEMMA HaltAgainKeeps ==
  ASSUME Trap!TrapsAssumption, TrapInv, Trap!HaltAgain
  PROVE  TrapInv'
<1>1. /\ place = "return" /\ env.status = "FREE" /\ place' = Trap!Deserted /\ frame' = <<0, 0>>
      /\ regs' = [regs EXCEPT !.eflags = Trap!FL_IF]
      /\ UNCHANGED <<lab, program, others, env, arg, event, ended>>
  BY DEF Trap!HaltAgain
<1>2. /\ Trap!Code' = Trap!Code /\ Flags' = Flags /\ Checked' = Checked
      /\ Trap!UserMemCheck(arg.va, arg.len, {"U"})' = Trap!UserMemCheck(arg.va, arg.len, {"U"})
  BY <1>1, Fixed
<1>3. place' \in {"halted", "monitor"} /\ (place' = "halted" => lab = 4 /\ others)
  BY <1>1 DEF Trap!Deserted, TrapInv, SetupOK
<1>4. regs \in Registers /\ regs.eip \in 1 .. Len(Trap!Code) /\ regs.cs = Trap!KernelSel
  BY <1>1 DEF TrapInv, RegsOK, Handling, Entry
<1>5. regs' \in Registers /\ regs'.eip = regs.eip /\ regs'.cs = regs.cs /\ regs'.eflags = Trap!FL_IF
  BY <1>1, <1>4 DEF Registers
<1>6. FrameOK'
  <2>1. \A i \in DOMAIN <<0, 0>> : <<0, 0>>[i] \in Int
    OBVIOUS
  <2> QED BY <1>1, <1>3, <2>1 DEF FrameOK
<1>7. ~Handling'
  BY <1>1, <1>3 DEF Handling, Entry
<1>8. RegsOK'
  BY <1>2, <1>3, <1>4, <1>5, <1>7 DEF RegsOK
<1>9. EventOK' /\ EnvOK'
  BY <1>1, <1>3, <1>7 DEF EventOK, EnvOK
<1>10. EndOK' /\ SetupOK' /\ Trap!KernelSurvives'
  BY <1>1, <1>2, <1>3 DEF TrapInv, EndOK, SetupOK, Trap!KernelSurvives, Trap!Place
<1> QED BY <1>6, <1>8, <1>9, <1>10 DEF TrapInv

LEMMA KilledKeeps ==
  ASSUME Trap!TrapsAssumption, TrapInv, Trap!Killed
  PROVE  TrapInv'
<1>1. /\ others /\ place = "user" /\ env.status = "RUNNING" /\ env' = [env EXCEPT !.status = "DYING"]
      /\ UNCHANGED <<lab, program, others, place, regs, frame, arg, event, ended>>
  BY DEF Trap!Killed
<1>2. /\ Trap!Code' = Trap!Code /\ Flags' = Flags /\ Checked' = Checked
      /\ Trap!UserMemCheck(arg.va, arg.len, {"U"})' = Trap!UserMemCheck(arg.va, arg.len, {"U"})
  BY <1>1, Fixed
<1>3. env'.status = "DYING" /\ DOMAIN env' = {"status", "tf"} /\ lab = 4
  BY <1>1 DEF TrapInv, SetupOK
<1>4. FrameOK' /\ RegsOK'
  BY <1>1, <1>2, <1>3 DEF TrapInv, FrameOK, RegsOK, Handling, Entry, Resumable
<1>5. EventOK' /\ EnvOK'
  BY <1>1, <1>3 DEF TrapInv, EventOK, EnvOK, Handling, Entry
<1>6. EndOK' /\ SetupOK' /\ Trap!KernelSurvives'
  BY <1>1, <1>2, <1>3 DEF TrapInv, EndOK, SetupOK, Trap!KernelSurvives, Trap!Place
<1> QED BY <1>4, <1>5, <1>6 DEF TrapInv

LEMMA Initially ==
  ASSUME Trap!TrapsAssumption, Trap!Init
  PROVE  TrapInv
<1>1. /\ lab \in Lab /\ program \in Tests /\ lab \in {3, 4} /\ others \in BOOLEAN /\ (others => lab = 4)
      /\ program = "print" => arg \in [va : PrintAt, len : PrintLen]
      /\ place = "user" /\ frame = <<>> /\ env = [status |-> "RUNNING", tf |-> <<>>]
      /\ regs = Trap!User0 /\ ended = Trap!NotEnded
  BY DEF Trap!Init, Trap!TrapsAssumption
<1>2. SetupOK
  BY <1>1 DEF SetupOK, Trap!NotEnded, Trap!Place
<1>3. Len(Trap!Code) \in Nat /\ Len(Trap!Code) > 2
  BY <1>2, CodeFacts
<1>4. Resumable(1)
  BY <1>3 DEF Resumable
<1>5. RegsOK
  BY <1>1, <1>3, <1>4 DEF RegsOK, Trap!User0, Registers, Flags, Trap!FL_IF, Handling, Entry
<1>6. FrameOK /\ EventOK /\ EnvOK /\ EndOK /\ Trap!KernelSurvives
  BY <1>1 DEF FrameOK, EventOK, EnvOK, EndOK, Trap!KernelSurvives, Handling, Entry, Trap!NotEnded
<1> QED BY <1>2, <1>5, <1>6 DEF TrapInv

LEMMA Keeps ==
  ASSUME Trap!TrapsAssumption, TrapInv, [Trap!Next]_(Trap!vars)
  PROVE  TrapInv'
<1>1. CASE Trap!Next
  BY <1>1, ExecuteKeeps, StubKeeps, AllTrapsKeeps, TrapKeeps, DispatchKeeps, EnvPopTfKeeps,
    MonitorReturnsKeeps,
     HaltAgainKeeps, KilledKeeps, IrqKeeps DEF Trap!Next, Trap!Step
<1>2. CASE UNCHANGED Trap!vars
  <2>1. UNCHANGED <<lab, program, others, place, regs, frame, env, arg, event, ended>>
    BY <1>2 DEF Trap!vars
  <2>2. /\ Trap!Code' = Trap!Code /\ Flags' = Flags /\ Checked' = Checked
        /\ Trap!UserMemCheck(arg.va, arg.len, {"U"})' = Trap!UserMemCheck(arg.va, arg.len, {"U"})
    BY <2>1, Fixed
  <2>3. FrameOK' /\ RegsOK' /\ EventOK'
    BY <2>1, <2>2 DEF TrapInv, FrameOK, RegsOK, EventOK, Handling, Entry, FromUser, Whole, Pushed,
      HandlerFrame, Resumable
  <2>4. EnvOK'
    BY <2>1, <2>2 DEF TrapInv, EnvOK, Handling, Entry, FromUser, Saved, Resumable
  <2>5. EndOK' /\ SetupOK' /\ Trap!KernelSurvives'
    BY <2>1, <2>2 DEF TrapInv, EndOK, SetupOK, Trap!KernelSurvives
  <2> QED BY <2>3, <2>4, <2>5 DEF TrapInv
<1> QED BY <1>1, <1>2

LEMMA Inductive == ASSUME Trap!TrapsAssumption PROVE Trap!Spec => []TrapInv
BY Initially, Keeps, PTL DEF Trap!Spec

\* What is printed ends below the top of the address space, also when it is rounded
\* up to pages.
NoWrap == \A va \in PrintAt, len \in PrintLen : va + len + Trap!PGSIZE - 1 < Trap!Space

\* The bytes of a piece of memory that user mode may not read.
Unreadable(va, len) ==
  {x \in va .. va + len - 1 : ~({"P", "U"} \subseteq Trap!Pte(x)) \/ x >= Trap!ULIM}

LEMMA Least ==
  ASSUME NEW S, S \subseteq Nat, S # {}
  PROVE  Trap!Min(S) \in S /\ \A y \in S : Trap!Min(S) <= y
<1> DEFINE R == OpToRel(<, Nat)
<1>1. \E x \in S : \A y \in S : <<y, x>> \notin R
  BY NatLessThanWellFounded, WFMin
<1>2. \A x, y \in Nat : y < x => <<y, x>> \in R
  BY DEF OpToRel
<1> HIDE DEF R
<1>3. PICK x \in S : \A y \in S : <<y, x>> \notin R
  BY <1>1
<1>4. \A y \in S : x <= y
  <2> TAKE y \in S
  <2>1. x \in Nat /\ y \in Nat /\ ~(y < x)
    BY <1>2, <1>3
  <2> QED BY <2>1
<1> QED BY <1>3, <1>4 DEF Trap!Min

\* user_mem_check goes by pages and yet finds the first byte, as long as va + len
\* does not wrap around.
LEMMA CheckIsExact ==
  ASSUME NEW va \in Nat, NEW len \in Nat \ {0}, va + len + Trap!PGSIZE - 1 < Trap!Space
  PROVE  IF Unreadable(va, len) = {} THEN Trap!UserMemCheck(va, len, {"U"}) = {}
         ELSE Trap!UserMemCheck(va, len, {"U"}) = {Trap!Min(Unreadable(va, len))}
<1> DEFINE start == va \div 4
           end == (va + len + 3) \div 4
           Wrong(q) == ~({"P", "U"} \subseteq Trap!Pte(q * 4)) \/ q * 4 >= Trap!ULIM
           bad == {q \in start .. end - 1 : Wrong(q)}
           U == Unreadable(va, len)
<1>1. Trap!PGSIZE = 4 /\ Trap!Space = 64 /\ Trap!ULIM = 44
  BY DEF Trap!PGSIZE, Trap!Space, Trap!ULIM
<1>2. start \in Nat /\ end \in Nat /\ (va + len + 3) % 64 = va + len + 3
  BY <1>1
<1>3. Trap!UserMemCheck(va, len, {"U"}) = IF bad = {}
        THEN {} ELSE {IF Trap!Min(bad) = start THEN va ELSE Trap!Min(bad) * 4}
  <2>1. va + len + Trap!PGSIZE - 1 = va + len + 3 /\ {"U"} \cup {"P"} = {"P", "U"}
    BY <1>1
  <2>2. ((va + len + Trap!PGSIZE - 1) % Trap!Space) \div Trap!PGSIZE = end
    BY <1>1, <1>2, <2>1
  <2> DEFINE last == ((va + len + Trap!PGSIZE - 1) % Trap!Space) \div Trap!PGSIZE
             pages == {p \in va \div Trap!PGSIZE .. last - 1 :
                         \/ ~({"U"} \cup {"P"} \subseteq Trap!Pte(p * Trap!PGSIZE))
                         \/ p * Trap!PGSIZE >= Trap!ULIM}
  <2>3. pages = bad
    BY <1>1, <2>1, <2>2
  <2>4. Trap!UserMemCheck(va, len, {"U"}) =
          IF pages = {} THEN {}
               ELSE {IF Trap!Min(pages) = va \div Trap!PGSIZE THEN va ELSE Trap!Min(pages) * Trap!PGSIZE}
    BY DEF Trap!UserMemCheck
  <2> HIDE DEF pages, bad
  <2> QED BY <1>1, <2>3, <2>4
<1>4. \A x \in Nat : x \div 4 \in Nat /\ (x \div 4) * 4 <= x /\ x < (x \div 4) * 4 + 4
        /\ ((x \div 4) * 4) \div 4 = x \div 4
  OBVIOUS
<1>5. \A x \in Nat : Wrong(x \div 4) <=> ~({"P", "U"} \subseteq Trap!Pte(x)) \/ x >= Trap!ULIM
  <2> TAKE x \in Nat
  <2>1. Trap!Pte((x \div 4) * 4) = Trap!Pte(x)
    BY <1>1, <1>4 DEF Trap!Pte
  <2>2. (x \div 4) * 4 >= 44 <=> x >= 44
    BY <1>4
  <2> QED BY <1>1, <2>1, <2>2
<1>6. \A x \in va .. va + len - 1 : x \div 4 \in start .. end - 1
  OBVIOUS
<1>7. U = {x \in va .. va + len - 1 : Wrong(x \div 4)}
  BY <1>5 DEF Unreadable
<1> HIDE DEF Wrong
<1>8. \A x \in U : x \div 4 \in bad
  BY <1>6, <1>7
<1>9. \A q \in bad : LET x == IF q = start THEN va ELSE q * 4 IN x \in U /\ x \div 4 = q
  <2> TAKE q \in bad
  <2>1. q \in Nat /\ start <= q /\ q <= end - 1 /\ Wrong(q)
    BY <1>2
  <2>2. CASE q = start
    BY <1>7, <2>1, <2>2
  <2>3. CASE q # start
    <3>1. (q * 4) \div 4 = q
      BY <2>1
    <3>2. va < q * 4
      BY <1>4, <2>1, <2>3
    <3>3. end * 4 <= va + len + 3
      BY <1>4
    <3>4. q * 4 <= va + len - 1
      BY <1>2, <2>1, <3>3
    <3> QED BY <1>7, <2>1, <2>3, <3>1, <3>2, <3>4
  <2> QED BY <2>2, <2>3
<1> HIDE DEF bad, U, start, end
<1>10. CASE bad = {}
  <2>1. U = {}
    BY <1>8, <1>10
  <2> QED BY <1>3, <1>10, <2>1 DEF U
<1>11. CASE bad # {}
  <2> DEFINE q == Trap!Min(bad)
             x == IF q = start THEN va ELSE q * 4
  <2>1. bad \subseteq Nat
    BY <1>2 DEF bad
  <2>2. q \in bad /\ \A y \in bad : q <= y
    BY <1>11, <2>1, Least
  <2>3. x \in U /\ x \div 4 = q
    BY <1>9, <2>2
  <2>4. U \subseteq Nat /\ \A y \in U : va <= y
    BY DEF U, Unreadable
  <2>5. Trap!Min(U) \in U /\ \A y \in U : Trap!Min(U) <= y
    BY <2>3, <2>4, Least
  <2>6. \A y \in U : x <= y
    <3> TAKE y \in U
    <3>1. y \in Nat /\ va <= y /\ y \div 4 \in bad /\ q <= y \div 4
      BY <1>8, <2>2, <2>4
    <3>2. (y \div 4) * 4 <= y /\ y \div 4 \in Nat /\ q \in Nat
      BY <1>4, <2>1, <2>2, <3>1
    <3> HIDE DEF q
    <3> QED BY <3>1, <3>2
  <2> HIDE DEF x
  <2>7. x = Trap!Min(U)
    <3>1. x \in Nat /\ Trap!Min(U) \in Nat
      BY <2>3, <2>4, <2>5
    <3>2. x <= Trap!Min(U) /\ Trap!Min(U) <= x
      BY <2>3, <2>5, <2>6
    <3> QED BY <3>1, <3>2
  <2>8. Trap!UserMemCheck(va, len, {"U"}) = {x} /\ U # {}
    BY <1>3, <1>11, <2>3 DEF x
  <2> QED BY <2>7, <2>8 DEF U
<1> QED BY <1>10, <1>11

\* Whatever the trap, with an error code or without, trap() finds in the struct
\* Trapframe the registers and the number of this trap, and the kernel does not
\* panic but for the key that is pressed while CPU 0 is halted.
THEOREM TrapFrames ==
  ASSUME Trap!TrapsAssumption
  PROVE  Trap!Spec => [](Trap!TypeOK /\ Trap!FrameExact /\ Trap!KernelSurvives)
<1>1. TrapInv => Trap!TypeOK
  <2> SUFFICES ASSUME TrapInv PROVE Trap!TypeOK
    OBVIOUS
  <2>1. regs \in Registers /\ regs.eip \in 1 .. Len(Trap!Code)
    BY DEF TrapInv, RegsOK
  <2>2. DOMAIN regs = DOMAIN Trap!User0 /\ (\A f \in DOMAIN regs : regs[f] \in Int)
          /\ regs.eflags \in {0, Trap!FL_IF}
    BY <2>1 DEF Registers, Trap!User0, Trap!FL_IF, Trap!UserSel, Trap!KernelSel
  <2> QED BY <2>1, <2>2 DEF TrapInv, SetupOK, FrameOK, Trap!TypeOK
<1>2. TrapInv => Trap!FrameExact
  <2> SUFFICES ASSUME TrapInv, place = "trap" PROVE Trap!FrameExact
    BY DEF Trap!FrameExact
  <2>1. event.regs \in Registers /\ event.vec \in Int /\ event.err \in Int /\ frame = Whole
    BY DEF TrapInv, EventOK, Handling, Entry, FrameOK
  <2>2. Trap!Mode(event.regs.cs) = 3 => FromUser
    BY <2>1 DEF Registers, Trap!Mode, FromUser, Trap!UserSel, Trap!KernelSel
  <2> QED BY <2>1, <2>2, FrameRead DEF Trap!FrameExact, Saved
<1>3. TrapInv => Trap!KernelSurvives
  BY DEF TrapInv
<1> QED BY <1>1, <1>2, <1>3, Inductive, PTL

\* sys_cputs prints a piece of memory exactly if its caller may read all of it, and
\* the address that user_mem_check reports, although it goes by pages, is the first
\* byte that the caller may not read, for every piece that does not wrap around the
\* top of the address space.
THEOREM PrintsWhatMayBeRead ==
  ASSUME Trap!TrapsAssumption, NoWrap
  PROVE  Trap!Spec => []Trap!PrintExact
<1>1. TrapInv => Trap!PrintExact
  <2> SUFFICES ASSUME TrapInv, program = "print", ended.how \in {"exit", "user_mem_assert"}
               PROVE  IF Unreadable(arg.va, arg.len) = {} THEN ended.how = "exit"
                      ELSE ended.how = "user_mem_assert" /\ ended.va = Trap!Min(Unreadable(arg.va, arg.len))
    BY DEF Trap!PrintExact, Unreadable
  <2>1. arg.va \in PrintAt /\ arg.len \in PrintLen
    BY DEF TrapInv, SetupOK
  <2>2. arg.va \in Nat /\ arg.len \in Nat \ {0} /\ arg.va + arg.len + Trap!PGSIZE - 1 < Trap!Space
    BY <2>1 DEF Trap!TrapsAssumption, NoWrap
  <2>3. IF Unreadable(arg.va, arg.len) = {} THEN Trap!UserMemCheck(arg.va, arg.len, {"U"}) = {}
        ELSE Trap!UserMemCheck(arg.va, arg.len, {"U"}) = {Trap!Min(Unreadable(arg.va, arg.len))}
    BY <2>2, CheckIsExact
  <2>4. /\ ended.how = "exit" => Trap!UserMemCheck(arg.va, arg.len, {"U"}) = {}
        /\ ended.how = "user_mem_assert" =>
             /\ Trap!UserMemCheck(arg.va, arg.len, {"U"}) # {}
             /\ ended.va = (CHOOSE va \in Trap!UserMemCheck(arg.va, arg.len, {"U"}) : TRUE)
    BY DEF TrapInv, EndOK, Checked
  <2>5. \A x : (CHOOSE va \in {x} : TRUE) = x
    OBVIOUS
  <2> QED BY <2>3, <2>4, <2>5
<1> QED BY <1>1, Inductive, PTL

\* A program goes on after a trap with the registers that it had at the trap, all
\* of them but the result of a system call.
THEOREM ProgramsGoOn ==
  ASSUME Trap!TrapsAssumption PROVE Trap!Spec => [][Trap!ResumesUnharmedStep]_(Trap!vars)
<1>1. TrapInv /\ [Trap!Next]_(Trap!vars) => [Trap!ResumesUnharmedStep]_(Trap!vars)
  <2> SUFFICES ASSUME TrapInv, Trap!Next, place # "user", place' = "user" PROVE Trap!ResumesUnharmedStep
    BY DEF Trap!ResumesUnharmedStep
  <2>1. Trap!EnvPopTf
    BY DEF Trap!Next, Trap!Step, Trap!Execute, Trap!AtOp, Trap!Stub, Trap!AllTraps, Trap!Trap,
      Trap!TrapDispatch, Trap!MonitorReturns, Trap!HaltAgain, Trap!Killed, Trap!Irq, Trap!Raise,
           Trap!Stop, Trap!Deserted, Trap!PageFaultHandler, Trap!Unexpected, Trap!EnvDestroy, Trap!Syscall,
             Trap!Return
  <2>2. /\ event.regs \in Registers /\ regs' = [event.regs EXCEPT !.eax = env.tf.eax]
        /\ env.tf.eax = event.regs.eax \/ event.vec = Trap!T_SYSCALL
    BY <2>1, Popped
  <2>3. DOMAIN regs = DOMAIN event.regs
    BY <2>2 DEF TrapInv, RegsOK, Registers
  <2> QED BY <2>2, <2>3 DEF Trap!ResumesUnharmedStep
<1> QED BY <1>1, Inductive, PTL DEF Trap!Spec

-----------------------------------------------------------------------------
(* Together: TrapParts *)

LEMMA OneTrapPart ==
  [TrapNext]_trapVars =>
    /\ trapPart = "Traps" => trapPart' = "Traps" /\ [Trap!Next]_(Trap!vars)
    /\ trapPart = "UserException" => trapPart' = "UserException" /\ [Upcall!Next]_(Upcall!vars)
BY DEF TrapNext, trapVars, kernelVars, upcallVars, Trap!vars, Upcall!vars

\* The behaviours of TrapParts are those of its parts.
LEMMA TrapPartSpecs ==
  /\ TrapSpec /\ trapPart = "Traps" => [](trapPart = "Traps") /\ Trap!Spec
  /\ TrapSpec /\ trapPart = "UserException" => [](trapPart = "UserException") /\ Upcall!Spec
  /\ TrapSpec => trapPart = "Traps" \/ trapPart = "UserException"
<1> DEFINE OfTrap == trapPart = "Traps"
           OfUpcall == trapPart = "UserException"
<1>1. /\ TrapInit /\ OfTrap => Trap!Init
      /\ TrapInit /\ OfUpcall => Upcall!Init
      /\ TrapInit => OfTrap \/ OfUpcall
  BY DEF TrapInit
<1>2. /\ OfTrap /\ [TrapNext]_trapVars => OfTrap' /\ [Trap!Next]_(Trap!vars)
      /\ OfUpcall /\ [TrapNext]_trapVars => OfUpcall' /\ [Upcall!Next]_(Upcall!vars)
  BY OneTrapPart
<1> QED BY <1>1, <1>2, PTL DEF TrapSpec, Trap!Spec, Upcall!Spec

\* Every trap is handled for what it is: trap() and the handlers read whole frames
\* of it, the kernel survives it, and what user_mem_check lets sys_cputs print is
\* what the caller may read, as long as it does not wrap around.
THEOREM TrapsAreHandledExactly == ASSUME NoWrap PROVE TrapSpec => []TrapsAreExact
<1> USE TrapPartsAssumption
<1> DEFINE OfTrap == trapPart = "Traps"
           OfUpcall == trapPart = "UserException"
           TrapGood == Trap!TypeOK /\ Trap!FrameExact /\ Trap!KernelSurvives /\ Trap!PrintExact
           UpcallGood == Upcall!TypeOK /\ Upcall!FramesIntact /\ Upcall!FaultsFit
<1>1. Trap!Spec => []TrapGood
  BY TrapFrames, PrintsWhatMayBeRead, PTL
<1>2. Upcall!Spec => []UpcallGood
  BY Typing, FramesStayIntact, NestingIsBounded, PTL
<1>3. /\ OfTrap /\ TrapGood => TrapsAreExact
      /\ OfUpcall /\ UpcallGood => TrapsAreExact
  BY DEF TrapsAreExact
<1> QED BY <1>1, <1>2, <1>3, TrapPartSpecs, PTL

\* What runs goes on as it was, after a trap into the kernel as after the return of
\* a page fault handler.
THEOREM ProgramsResumeUnharmed == TrapSpec => ResumesUnharmed
<1> USE TrapPartsAssumption
<1> DEFINE OfTrap == trapPart = "Traps"
           OfUpcall == trapPart = "UserException"
           Unharmed == /\ OfTrap => Trap!ResumesUnharmedStep
                       /\ OfUpcall => Upcall!ResumeExactStep
<1>1. OfTrap /\ [TrapNext]_trapVars /\ [Trap!ResumesUnharmedStep]_(Trap!vars) => [Unharmed]_trapVars
  <2> SUFFICES ASSUME OfTrap, TrapNext, [Trap!ResumesUnharmedStep]_(Trap!vars) PROVE Trap!ResumesUnharmedStep
    OBVIOUS
  <2> QED BY DEF Trap!ResumesUnharmedStep, Trap!vars
<1>2. OfUpcall /\ [TrapNext]_trapVars /\ [Upcall!ResumeExactStep]_(Upcall!vars) => [Unharmed]_trapVars
  <2> SUFFICES ASSUME OfUpcall, TrapNext, [Upcall!ResumeExactStep]_(Upcall!vars) PROVE Upcall!ResumeExactStep
    OBVIOUS
  <2>1. CASE UNCHANGED Upcall!vars
    BY <2>1 DEF Upcall!ResumeExactStep, Upcall!vars
  <2> QED BY <2>1
<1>3. TrapSpec /\ OfTrap => [][Unharmed]_trapVars
  BY <1>1, ProgramsGoOn, TrapPartSpecs, PTL DEF TrapSpec
<1>4. TrapSpec /\ OfUpcall => [][Unharmed]_trapVars
  BY <1>2, FaultsResumeExactly, TrapPartSpecs, PTL DEF TrapSpec
<1>5. TrapSpec => [][Unharmed]_trapVars
  BY <1>3, <1>4, TrapPartSpecs, PTL
<1> QED BY <1>5 DEF ResumesUnharmed
================================================================================

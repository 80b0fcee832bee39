---------------------------- MODULE PrivateMemory ----------------------------
(***************************************************************************)
(* What fork of lab4/lib/fork.c, dumbfork of lab4/user/dumbfork.c and the  *)
(* page table calls below them promise: every program has memory of its    *)
(* own, which nobody else changes, and a child starts with the memory its  *)
(* parent had.  The parent goes on using its stack while it forks, so the  *)
(* stack of the child is any of those the parent had in the meantime.      *)
(***************************************************************************)
EXTENDS Naturals

CONSTANTS
  Env,      \* environments
  First,    \* the one that is there at the start
  Value,    \* contents of a page
  Nothing   \* the memory of an environment that does not run

VARIABLES
  running,  \* the environments that run
  mem,      \* the contents of "data" and "stack" of each
  seen      \* for one that forks, the contents its stack has had since

memoryVars == <<running, mem, seen>>

Area == {"data", "stack"}

Init ==
  /\ running = {First}
  /\ mem = [e \in Env |-> IF e = First THEN [a \in Area |-> 0] ELSE Nothing]
  /\ seen = [e \in Env |-> {}]

\* e stores v; while it forks, on its stack only.
Write(e, a, v) ==
  /\ e \in running /\ (seen[e] # {} => a = "stack")
  /\ mem' = [mem EXCEPT ![e][a] = v]
  /\ seen' = [seen EXCEPT ![e] = IF @ = {} THEN {} ELSE @ \cup {v}]
  /\ UNCHANGED running

\* e calls fork.
Begin(e) ==
  /\ e \in running /\ seen[e] = {}
  /\ seen' = [seen EXCEPT ![e] = {mem[e]["stack"]}]
  /\ UNCHANGED <<running, mem>>

\* The child c of p starts, and fork returns in p.
Start(p, c) ==
  /\ p \in running /\ seen[p] # {} /\ c \notin running
  /\ running' = running \cup {c}
  /\ \E v \in seen[p] : mem' = [mem EXCEPT ![c] = [data |-> mem[p]["data"], stack |-> v]]
  /\ seen' = [seen EXCEPT ![p] = {}]

\* e exits, or cannot go on for want of memory.
Stop(e) ==
  /\ e \in running
  /\ running' = running \ {e}
  /\ mem' = [mem EXCEPT ![e] = Nothing]
  /\ seen' = [seen EXCEPT ![e] = {}]

Next ==
  \E e \in Env :
    \/ Begin(e) \/ Stop(e)
    \/ \E a \in Area, v \in Value : Write(e, a, v)
    \/ \E c \in Env : Start(e, c)

Spec == Init /\ [][Next]_memoryVars
==============================================================================

---------------------------- MODULE UserPrograms -----------------------------
(***************************************************************************)
(* Test programs of lab4/user that fork and talk to each other: primes,    *)
(* pingpong and sendpage, each process a state machine on top of what      *)
(* lib/ipc.c promises (module Rendezvous, which module Ipc is shown to     *)
(* implement).  fork() copies the local variables of its caller (module    *)
(* CowFork shows that they are private).                                  *)
(***************************************************************************)
EXTENDS Integers, Sequences

CONSTANTS
  Program,   \* the programs to run: names from ProgramNames
  NENV,      \* slots of envs[] that they and their children can have
  Last,      \* primes: stop feeding integers after this one (bound)
  None       \* no message, no page

ProgramNames == {"primes", "pingpong", "sendpage"}

ProgramAssumption ==
  /\ Program \subseteq ProgramNames
  /\ NENV \in Nat \ {0} /\ Last \in Nat

VARIABLES
  program,                       \* the program that this behaviour runs
  state, wants, offer, inbox, taken,   \* see Rendezvous
  pc,                            \* where each process is
  loc,                           \* its local variables
  text,                          \* sendpage: what is on the page it shares
  out                            \* what the processes printed, in order

channel == <<state, wants, offer, inbox, taken>>
vars == <<program, channel, pc, loc, text, out>>

Isprime(n) == n > 1 /\ \A d \in 2..(n - 1) : n % d # 0

Env == 0 .. NENV - 1

\* A message without a page, and the page of sendpage.
Msg(v) == [value |-> v, perm |-> "none", page |-> None]
PageMsg == [value |-> 0, perm |-> "W", page |-> "page"]

\* Nobody here fails, and nobody sends a page to a process that asks for none.
Channel ==
  INSTANCE Rendezvous WITH
    Message <- {Msg(v) : v \in Int} \cup {PageMsg}, NoPage <- None, Nothing <- None,
    error <- [e \in Env |-> "ok"]

Init ==
  /\ program \in Program
  /\ Channel!Init
  /\ pc = [e \in Env |-> IF e = 0 THEN "main" ELSE "unborn"]
  /\ loc = [e \in Env |-> [i |-> 0, p |-> 0, id |-> 0, who |-> 0]]
  /\ text = "zero"
  /\ out = <<>>

-----------------------------------------------------------------------------

At(e, prog, place) == program = prog /\ pc[e] = place

Goto(e, place) == pc' = [pc EXCEPT ![e] = place]

Unborn == {c \in Env : pc[c] = "unborn"}

\* fork(): the child starts at place with the caller's locals and the caller
\* goes on at next with its id.  Without a free slot the caller panics and does
\* not go on.
Fork(e, place, next) ==
  LET child == CHOOSE c \in Unborn : \A d \in Unborn : c <= d IN
  /\ Unborn # {}
  /\ pc' = [pc EXCEPT ![child] = place, ![e] = next]
  /\ loc' = [loc EXCEPT ![child] = loc[e], ![e].id = child]
  /\ UNCHANGED <<program, channel, text, out>>

Say(x) == out' = Append(out, x)

\* ipc_send(to, v) and ipc_recv, going on at next when they have returned; only
\* sendpage passes ipc_recv an address for a page.
CallSend(e, to, m, next) ==
  Channel!Offer(e, {to}, {m}) /\ Goto(e, next) /\ UNCHANGED <<program, loc, text, out>>

CallRecv(e, next) ==
  Channel!Receive(e, program = "sendpage") /\ Goto(e, next) /\ UNCHANGED <<program, loc, text, out>>

Returned(e) == state[e] = "idle" /\ UNCHANGED <<program, channel>>

Received(e) == taken[e].msg.value

Exits(e) == Channel!Die(e) /\ Goto(e, "exited") /\ UNCHANGED <<program, loc, text, out>>

-----------------------------------------------------------------------------
(* primes.c *)

\* umain: fork the first process of the chain, then feed 2, 3, ... (here i is
\* how many numbers were sent).
PrimesMain(e) ==
  \/ At(e, "primes", "main") /\ Fork(e, "top", "feed")
  \/ /\ At(e, "primes", "feed") /\ loc[e].i + 2 <= Last
     /\ CallSend(e, loc[e].id, Msg(loc[e].i + 2), "fed")
  \/ /\ At(e, "primes", "fed") /\ Returned(e)
     /\ loc' = [loc EXCEPT ![e].i = @ + 1]
     /\ Goto(e, "feed")
     /\ UNCHANGED <<text, out>>

\* i = ipc_recv(); if (i % p) ...
PrimesFilter(e) ==
  /\ At(e, "primes", "filter") /\ Returned(e)
  /\ loc' = [loc EXCEPT ![e].i = Received(e)]
  /\ Goto(e, IF Received(e) % loc[e].p # 0 THEN "pass" ELSE "next")
  /\ UNCHANGED <<text, out>>

\* primeproc: the first number received is a prime; fork a right neighbour and
\* send it what is no multiple.
Primeproc(e) ==
  \/ At(e, "primes", "top") /\ CallRecv(e, "first")
  \/ /\ At(e, "primes", "first") /\ Returned(e)
     /\ loc' = [loc EXCEPT ![e].p = Received(e)]
     /\ Say(Received(e))
     /\ Goto(e, "fork")
     /\ UNCHANGED text
  \/ At(e, "primes", "fork") /\ Fork(e, "top", "next")
  \/ At(e, "primes", "next") /\ CallRecv(e, "filter")
  \/ PrimesFilter(e)
  \/ At(e, "primes", "pass") /\ CallSend(e, loc[e].id, Msg(loc[e].i), "passed")
  \/ /\ At(e, "primes", "passed") /\ Returned(e) /\ Goto(e, "next")
     /\ UNCHANGED <<loc, text, out>>

-----------------------------------------------------------------------------
(* pingpong.c *)

PingpongSent(e) ==
  /\ At(e, "pingpong", "sent") /\ Returned(e)
  /\ Goto(e, IF loc[e].i = 10 THEN "exit" ELSE "ping")
  /\ UNCHANGED <<loc, text, out>>

Pingpong(e) ==
  \/ At(e, "pingpong", "main") /\ Fork(e, "ping", "start")
  \/ At(e, "pingpong", "start") /\ CallSend(e, loc[e].id, Msg(0), "ball")
  \/ /\ At(e, "pingpong", "ball") /\ Returned(e) /\ Goto(e, "ping")
     /\ UNCHANGED <<loc, text, out>>
  \/ At(e, "pingpong", "ping") /\ CallRecv(e, "pong")
  \/ /\ At(e, "pingpong", "pong") /\ Returned(e)
     /\ Say(Received(e))
     /\ loc' = [loc EXCEPT ![e].i = Received(e) + 1, ![e].who = taken[e].from]
     /\ Goto(e, IF Received(e) = 10 THEN "exit" ELSE "back")
     /\ UNCHANGED text
  \/ At(e, "pingpong", "back") /\ CallSend(e, loc[e].who, Msg(loc[e].i), "sent")
  \/ PingpongSent(e)
  \/ At(e, "pingpong", "exit") /\ Exits(e)

-----------------------------------------------------------------------------
(* sendpage.c: TEMP_ADDR and TEMP_ADDR_CHILD come to map one page. *)

\* Parent: memcpy(TEMP_ADDR, str1).
SendpageWrite(e) ==
  /\ At(e, "sendpage", "write") /\ Returned(e)
  /\ text' = "str1"
  /\ Goto(e, "send")
  /\ UNCHANGED <<loc, out>>

Sendpage(e) ==
  \/ At(e, "sendpage", "main") /\ Fork(e, "recv", "write")
  \/ SendpageWrite(e)
  \/ At(e, "sendpage", "send") /\ CallSend(e, loc[e].id, PageMsg, "sent")
  \/ /\ At(e, "sendpage", "sent") /\ Returned(e) /\ Goto(e, "answer")
     /\ UNCHANGED <<loc, text, out>>
  \/ At(e, "sendpage", "recv") /\ CallRecv(e, "check1")
  \/ /\ At(e, "sendpage", "check1") /\ Returned(e)      \* the child
     /\ Say(text)
     /\ text' = "str2"
     /\ loc' = [loc EXCEPT ![e].who = taken[e].from]
     /\ Goto(e, "reply")
  \/ At(e, "sendpage", "reply") /\ CallSend(e, loc[e].who, PageMsg, "replied")
  \/ /\ At(e, "sendpage", "replied") /\ Returned(e) /\ Goto(e, "exit")
     /\ UNCHANGED <<loc, text, out>>
  \/ At(e, "sendpage", "answer") /\ CallRecv(e, "check2")
  \/ /\ At(e, "sendpage", "check2") /\ Returned(e)      \* the parent
     /\ Say(text)
     /\ Goto(e, "exit")
     /\ UNCHANGED <<loc, text>>
  \/ At(e, "sendpage", "exit") /\ Exits(e)

-----------------------------------------------------------------------------

\* The two steps of a message that the kernel takes by itself.
Deliver(e) ==
  /\ Channel!Return(e) \/ \E r \in Env : Channel!Handover(e, r)
  /\ UNCHANGED <<program, pc, loc, text, out>>

Step(e) ==
  \/ PrimesMain(e) \/ Primeproc(e)
  \/ Pingpong(e) \/ Sendpage(e)
  \/ Deliver(e)

Next == \E e \in Env : Step(e)

Spec == Init /\ [][Next]_vars

-----------------------------------------------------------------------------
(* Properties *)

\* The k-th number printed is the k-th prime, although every process of the
\* chain prints on its own: a number reaches a new process only after all
\* smaller primes were printed and have let it pass.
PrimesInOrder ==
  program = "primes" =>
    \A k \in DOMAIN out :
      /\ Isprime(out[k])
      /\ \A n \in 2..out[k] : Isprime(n) => \E j \in 1..k : out[j] = n

\* No process can do anything any more.
Quiet == ~ENABLED Next

\* When the chain comes to rest, with every process waiting for its neighbour,
\* it has found every prime up to Last: no number is lost between processes.
PrimesFound ==
  program = "primes" /\ Quiet =>
    \A n \in 2..Last : Isprime(n) => \E k \in DOMAIN out : out[k] = n

\* The ball is counted from 0 to 10, and then neither process is left waiting
\* for the other.
PingpongEnds ==
  program = "pingpong" /\ Quiet =>
    /\ pc[0] = "exited" /\ pc[1] = "exited"
    /\ out = [k \in 1..11 |-> k - 1]

\* On the shared page the child finds the parent's text and the parent finds
\* the child's, and both end.
SendpageCorrect ==
  program = "sendpage" /\ Quiet =>
    out = <<"str1", "str2">> /\ pc[0] = "exited" /\ pc[1] = "exited"
==============================================================================

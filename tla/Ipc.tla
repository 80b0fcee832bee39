--------------------------------- MODULE Ipc ---------------------------------
(***************************************************************************)
(* Messages between environments in JOS, lab 4: sys_ipc_try_send and       *)
(* sys_ipc_recv (kern/syscall.c) on the env_ipc_ fields of struct Env, and *)
(* the library around them (lib/ipc.c): the retry loop of ipc_send and the *)
(* three reads by which ipc_recv fetches the message after it was woken.   *)
(*                                                                         *)
(* A system call is one action (module KernelLock); the reads of ipc_recv  *)
(* are steps of their own, because other environments run between them.    *)
(* Each environment has one address, its window, from which it sends and   *)
(* at which it receives pages.  The value it sends is its own name, so that *)
(* a message put together from two senders shows.                          *)
(***************************************************************************)
EXTENDS Naturals

CONSTANTS
  Env,             \* environments, by id; an id is not used again (see EnvSched)
  Senders,         \* those that call ipc_send
  PageReceivers,   \* those that call ipc_recv with an address for a page ...
  PlainReceivers,  \* ... and with a null pointer
  Perms,           \* the permissions with which they send, see Perm
  NoEnv,           \* env_ipc_from, and env_ipc_value, before the first message
  NoPage,          \* an address without a page
  Nothing          \* no message, no call

Receivers == PageReceivers \cup PlainReceivers

\* Whoever sends a page knows that it is asked for.  The programs of user/ do;
\* the system calls say that they need not (kern/syscall.c:275).
AgreeOnPages == PageReceivers \cap PlainReceivers = {}

\* Permissions of a mapping: none, PTE_U|PTE_P, PTE_U|PTE_P|PTE_W, and one
\* with a bit outside PTE_SYSCALL, which sys_page_map refuses.
Perm == {"none", "R", "W", "bad"}

ASSUME IpcAssumption ==
  /\ NoEnv \notin Env /\ NoPage \notin Env
  /\ Senders \subseteq Env /\ PageReceivers \subseteq Env /\ PlainReceivers \subseteq Env
  /\ Perms \subseteq Perm
  /\ Nothing \notin [from : Env, perm : Perm, value : Env]

VARIABLES
  doing,    \* what each environment is doing, see Doing
  call,     \* the arguments of the ipc_send that it is in
  got,      \* what its ipc_recv has read so far
  window,   \* the page at its window and whether it is writable
  recving,  \* env_ipc_recving
  dstva,    \* env_ipc_dstva is below UTOP: it wants a page
  value,    \* env_ipc_value
  from,     \* env_ipc_from
  perm,     \* env_ipc_perm
  err       \* the error that made its ipc_send panic, or "ok"

ipcVars == <<doing, call, got, window, recving, dstva, value, from, perm, err>>

\* "sent": past the successful call, about to sys_yield; "recv": blocked;
\* "read_..": returned from sys_ipc_recv, next field to read; "panic": at the
\* int3 of a user panic, which drops the kernel into the monitor.
Doing == {"idle", "send", "sent", "recv", "read_from", "read_perm",
          "read_value", "panic", "dead"}

\* Pages are named after the environment that allocated them at boot.
IpcInit ==
  /\ doing = [e \in Env |-> "idle"]
  /\ call = [e \in Env |-> Nothing]
  /\ got = [e \in Env |-> Nothing]
  /\ window = [e \in Env |-> [page |-> e, write |-> TRUE]]
  /\ recving = [e \in Env |-> FALSE]
  /\ dstva = [e \in Env |-> FALSE]
  /\ value = [e \in Env |-> NoEnv]
  /\ from = [e \in Env |-> NoEnv]
  /\ perm = [e \in Env |-> "none"]
  /\ err = [e \in Env |-> "ok"]

kernel == <<window, recving, dstva, value, from, perm>>

\* The kernel can be entered: no user panic has left it in the monitor.
Up == \A e \in Env : doing[e] # "panic"

-----------------------------------------------------------------------------
(* ipc_send *)

\* ipc_send(r, s, pg, p); p is "none" when pg is null.
Send(s, r, p) ==
  /\ doing[s] = "idle"
  /\ doing' = [doing EXCEPT ![s] = "send"]
  /\ call' = [call EXCEPT ![s] = [to |-> r, value |-> s, perm |-> p]]
  /\ UNCHANGED <<got, kernel, err>>

\* sys_ipc_try_send gets as far as env_ipc_value = value; env_ipc_perm = 0.
Reaches(s) == Up /\ doing[s] = "send" /\ doing[call[s].to] # "dead" /\ recving[call[s].to]

\* The call returns an error other than -E_IPC_NOT_RECV, and ipc_send panics.
Panics(s, e) ==
  /\ err' = [err EXCEPT ![s] = e]
  /\ doing' = [doing EXCEPT ![s] = "panic"]
  /\ UNCHANGED <<call, got>>

\* envid2env fails.
SendBadEnv(s) ==
  /\ Up /\ doing[s] = "send" /\ doing[call[s].to] = "dead"
  /\ Panics(s, "E_BAD_ENV")
  /\ UNCHANGED kernel

\* The receiver is not waiting: -E_IPC_NOT_RECV, sys_yield, once more.
SendRetry(s) ==
  /\ Up /\ doing[s] = "send" /\ doing[call[s].to] # "dead" /\ ~recving[call[s].to]
  /\ UNCHANGED ipcVars

\* sys_page_map fails, when value and perm are already written: the receiver
\* wants no page (dstva >= UTOP) or the permission is bad, or there is no
\* memory for a page table.
SendPageFails(s) ==
  LET r == call[s].to IN
  /\ Reaches(s)
  /\ call[s].perm # "none"
  /\ value' = [value EXCEPT ![r] = call[s].value]
  /\ perm' = [perm EXCEPT ![r] = "none"]
  /\ Panics(s, IF dstva[r] /\ call[s].perm # "bad" THEN "E_NO_MEM" ELSE "E_INVAL")
  /\ UNCHANGED <<window, recving, dstva, from>>

\* Mutant of SendOk: the receiver stays ENV_NOT_RUNNABLE.
Mut_SendOkNoWake(s) ==
  LET r == call[s].to
      p == call[s].perm IN
  /\ Reaches(s)
  /\ p # "none" => dstva[r] /\ p # "bad"
  /\ value' = [value EXCEPT ![r] = call[s].value]
  /\ perm' = [perm EXCEPT ![r] = p]
  /\ window' = IF p = "none" THEN window
               ELSE [window EXCEPT ![r] = [page |-> window[s].page, write |-> p = "W"]]
  /\ from' = [from EXCEPT ![r] = s]
  /\ recving' = [recving EXCEPT ![r] = FALSE]
  /\ doing' = [doing EXCEPT ![s] = "sent"]
  /\ UNCHANGED <<call, got, dstva, err>>

\* The call succeeds: the message is stored, the page mapped, r woken.
SendOk(s) ==
  LET r == call[s].to
      p == call[s].perm IN
  /\ Reaches(s)
  /\ p # "none" => dstva[r] /\ p # "bad"
  /\ value' = [value EXCEPT ![r] = call[s].value]
  /\ perm' = [perm EXCEPT ![r] = p]
  /\ window' = IF p = "none" THEN window
               ELSE [window EXCEPT ![r] = [page |-> window[s].page, write |-> p = "W"]]
  /\ from' = [from EXCEPT ![r] = s]
  /\ recving' = [recving EXCEPT ![r] = FALSE]
  /\ doing' = [doing EXCEPT ![r] = "read_from", ![s] = "sent"]
  /\ UNCHANGED <<call, got, dstva, err>>

\* sys_yield, and ipc_send returns.
SendReturn(s) ==
  /\ Up /\ doing[s] = "sent"
  /\ doing' = [doing EXCEPT ![s] = "idle"]
  /\ call' = [call EXCEPT ![s] = Nothing]
  /\ UNCHANGED <<got, kernel, err>>

-----------------------------------------------------------------------------
(* ipc_recv *)

\* sys_ipc_recv, with a page address or with UTOP: block.
Recv(r, wantsPage) ==
  /\ Up /\ doing[r] = "idle"
  /\ recving' = [recving EXCEPT ![r] = TRUE]
  /\ dstva' = [dstva EXCEPT ![r] = wantsPage]
  /\ doing' = [doing EXCEPT ![r] = "recv"]
  /\ got' = [got EXCEPT ![r] = Nothing]
  /\ UNCHANGED <<call, window, value, from, perm, err>>

\* *from_env_store = thisenv->env_ipc_from
ReadFrom(r) ==
  /\ doing[r] = "read_from"
  /\ got' = [got EXCEPT ![r] = [from |-> from[r]]]
  /\ doing' = [doing EXCEPT ![r] = "read_perm"]
  /\ UNCHANGED <<call, kernel, err>>

\* *perm_store = thisenv->env_ipc_perm
ReadPerm(r) ==
  /\ doing[r] = "read_perm"
  /\ got' = [got EXCEPT ![r] = [from |-> @.from, perm |-> perm[r]]]
  /\ doing' = [doing EXCEPT ![r] = "read_value"]
  /\ UNCHANGED <<call, kernel, err>>

\* return thisenv->env_ipc_value
ReadValue(r) ==
  /\ doing[r] = "read_value"
  /\ got' = [got EXCEPT ![r] = [from |-> @.from, perm |-> @.perm, value |-> value[r]]]
  /\ doing' = [doing EXCEPT ![r] = "idle"]
  /\ UNCHANGED <<call, kernel, err>>

\* exit(), or sys_env_destroy by the parent, at any moment.
Die(e) ==
  /\ Up /\ doing[e] # "dead"
  /\ doing' = [doing EXCEPT ![e] = "dead"]
  /\ call' = [call EXCEPT ![e] = Nothing]
  /\ got' = [got EXCEPT ![e] = Nothing]
  /\ UNCHANGED <<kernel, err>>

TrySend(s) == SendBadEnv(s) \/ SendRetry(s) \/ SendPageFails(s) \/ SendOk(s)

IpcNext ==
  \E e \in Env :
    \/ SendBadEnv(e) \/ SendRetry(e) \/ SendPageFails(e) \/ SendOk(e)
    \/ SendReturn(e)
    \/ ReadFrom(e) \/ ReadPerm(e) \/ ReadValue(e) \/ Die(e)
    \/ e \in PageReceivers /\ Recv(e, TRUE)
    \/ e \in PlainReceivers /\ Recv(e, FALSE)
    \/ \E p \in Perms, r \in Receivers :
         e \in Senders /\ (p # "none" => r \in PageReceivers) /\ Send(e, r, p)

IpcSpec == IpcInit /\ [][IpcNext]_ipcVars

\* The scheduler lets every environment run again and again (EnvSched checks
\* when), so one in ipc_send keeps trying.
IpcFairSpec == IpcSpec /\ \A e \in Env : WF_ipcVars(TrySend(e))

-----------------------------------------------------------------------------
(* Properties *)

\* The fields keep their types, and env_ipc_recving is set exactly while the
\* environment is blocked in sys_ipc_recv (or was killed there).
FieldsOK ==
  /\ doing \in [Env -> Doing]
  /\ window \in [Env -> [page : Env, write : BOOLEAN]]
  /\ recving \in [Env -> BOOLEAN] /\ dstva \in [Env -> BOOLEAN]
  /\ value \in [Env -> Env \cup {NoEnv}]
  /\ from \in [Env -> Env \cup {NoEnv}]
  /\ perm \in [Env -> Perm \ {"bad"}]
  /\ \A e \in Env : doing[e] # "dead" => (recving[e] <=> doing[e] = "recv")

\* A message as programs see it; the page of a mapping that carries none is
\* not looked at.
MsgOf(v, p, page) ==
  [value |-> v, perm |-> p, page |-> IF p = "none" THEN NoPage ELSE page]

Reading == {"read_from", "read_perm", "read_value"}

\* The refinement mapping to Rendezvous.
State(e) ==
  CASE doing[e] \in Reading -> "full"
    [] doing[e] = "sent" -> "idle"
    [] doing[e] = "panic" -> "stuck"
    [] OTHER -> doing[e]

Offered(e) ==
  IF doing[e] # "send" THEN Nothing
  ELSE [to |-> call[e].to,
        msg |-> MsgOf(call[e].value, call[e].perm, window[e].page)]

Inbox(e) ==
  IF doing[e] \notin Reading THEN Nothing
  ELSE [from |-> from[e], msg |-> MsgOf(value[e], perm[e], window[e].page)]

Taken(e) ==
  IF doing[e] \in Reading \cup {"recv"} \/ got[e] = Nothing THEN Nothing
  ELSE [from |-> got[e].from, msg |-> MsgOf(got[e].value, got[e].perm, window[e].page)]

\* What a program can send.
Messages == {MsgOf(v, p, page) : v \in Env, p \in Perm, page \in Env}

Abstract ==
  INSTANCE Rendezvous WITH
    Message <- Messages,
    state <- [e \in Env |-> State(e)],
    wants <- dstva,
    error <- err,
    offer <- [e \in Env |-> Offered(e)],
    inbox <- [e \in Env |-> Inbox(e)],
    taken <- [e \in Env |-> Taken(e)]

\* ipc_send and ipc_recv implement the rendezvous: whatever senders race, fail
\* half-way or die, a receiver returns exactly one sender's message, with its
\* page if it asked for one, and that sender, and no other, goes on; and a sender
\* fails only for the reasons that sys_ipc_try_send gives.  A page sent to a
\* receiver that asks for none breaks it: AgreeOnPages excludes that.
ImplementsRendezvous == Abstract!Spec

SendersTo(r) == {s \in Env : doing[s] = "send" /\ call[s].to = r}

\* A receiver that somebody is sending to is served, by that sender or another
\* one: the wake-up is not lost between the retry loop and the blocking call.
ReceiverServed ==
  \A r \in Receivers :
    (doing[r] = "recv" /\ SendersTo(r) # {})
      ~> (doing[r] # "recv" \/ SendersTo(r) = {} \/ ~Up)
==============================================================================
